---- MODULE Spec2Model ----
(***************************************************************************)
(* Verification model of the AUTestAutomation harness.                     *)
(*                                                                         *)
(* Part 1: core/cache/data_cache.py  (DataCache singleton and its map)     *)
(* Part 2: base/api/services/base_service.py (_make_request_with_retry)    *)
(***************************************************************************)
EXTENDS Integers, Sequences, FiniteSets, TLC

(***************************************************************************)
(* Bounds of the model.                                                    *)
(***************************************************************************)
NumClients == 2
NumTokens == 2
MaxPageCalls == 2
MaxTests == 2
MaxLoggerCalls == 3
MaxNow == 2
MaxManagers == 2
NumKeys == 2
NumValues == 1
MaxResets == 1
NumThreads == 2
OpsPerThread == 2
MaxRetriesBound == 2
MaxRetryDelay == 2
MaxRequests == 2

Clients == 1..NumClients
Workers == 1..NumThreads
\* the thread that starts the workers, joins them and reads size()
Main == NumThreads + 1
Procs == Clients \cup Workers \cup {Main}
Keys == 1..NumKeys
\* Python None, as a value and as a reference
None == 0
\* a local variable that was never assigned
Unbound == -1
\* values a test stores; None can be stored as well
Values == 0..NumValues
WorkerKeys == 1..(NumThreads * OpsPerThread)

VARIABLES
    \* ---- DataCache class attributes (data_cache.py:29-31)
    instance,       \* DataCache._instance: None or an object reference
    lock,           \* DataCache._lock: None (free) or the holding client
    initialized,    \* DataCache._initialized
    \* ---- DataCache objects, indexed by object reference 1..Len(objects)
    objects,        \* sequence of [has_attrs, data, data_lock]
    \* ---- callers
    pc,             \* position of each client / thread
    cache,          \* the reference a client holds (self.cache, local `cache`)
    op,             \* the call a client is executing
    ret,            \* what the last call of a client returned or raised
    resets,         \* number of reset_instance() calls started
    \* ---- worker threads of test_thread_safety (test_data_cache.py:146-180)
    wi,             \* loop index i of each worker
    wphase,         \* next statement of the loop body
    wok,            \* no assertion of the worker failed so far
    \* ---- observation of the call history
    prevRet,        \* object returned by the latest get_instance()/get_cache()
    resetSince,     \* a reset_instance() replaced the instance since then
    everReturned,   \* every object an accessor call returned so far
    shadow,         \* per object: the plain map its operations describe
    written,        \* per key: latest value written by any client, and where
    created,        \* number of DataCache objects created by get_instance
    \* ---- BaseService._make_request_with_retry (base_service.py:196-287)
    ENABLE_RETRY,   \* Settings.ENABLE_RETRY
    MAX_RETRIES,    \* Settings.MAX_RETRIES
    RETRY_DELAY,    \* Settings.RETRY_DELAY
    rpc,            \* position of the request: "idle", "loop", "done"
    max_retries,    \* local max_retries
    retry_delay,    \* local retry_delay
    attempt,        \* loop variable attempt
    last_exception, \* local last_exception
    outcomes,       \* what each underlying session.request call produced
    sleeps,         \* arguments of the time.sleep calls of this request
    result,         \* how the call ended
    requests        \* number of requests started

VARIABLES
    \* ---- BaseService.extract_and_cache (base_service.py:359-406)
    response,       \* argument response: whether it parses, and its body
    cache_key,      \* argument cache_key
    json_path,      \* argument json_path
    extracted       \* how the call ended and what it returned

extractVars == <<response, cache_key, json_path, extracted>>

VARIABLES
    \* ---- PanJiPortalService operations (portal_service.py:117-631)
    pphase,         \* per client: position inside a portal operation
    authorization,  \* headers["Authorization"] of the latest request sent
    sentBefore      \* observation: the same of the request before it

portalVars == <<pphase, authorization, sentBefore>>

VARIABLES
    \* ---- BasePage primitives (base_page.py:195-783)
    files,          \* names of the files in Settings.SCREENSHOT_DIR
    clock,          \* datetime.now(), in milliseconds
    presult,        \* the latest primitive call and how it ended
    captures,       \* the _capture_failure_screenshot calls it made
    newFiles        \* the files it wrote

pageVars == <<files, clock, presult, captures, newFiles>>

VARIABLES
    \* ---- one pytest session (conftest.py:11-178, the fixtures' teardowns)
    TEST_RESULTS,   \* the module-level counter dict
    sphase,         \* what the runner does next
    item,           \* the test being run: its kind and its rep_* attributes
    tests,          \* number of tests the session has run
    counted,        \* observation: the tests by what happened to them
    td_logged,      \* teardown steps of this test whose failure was logged
    td_raised,      \* teardown steps of this test whose failure propagated
    total,          \* the total pytest_sessionfinish logs
    SCREENSHOT_ON_FAILURE, \* Settings.SCREENSHOT_ON_FAILURE
    screenshots     \* the failure screenshots tried in the teardown of this test

sessionVars == <<TEST_RESULTS, sphase, item, tests, counted, td_logged,
                 td_raised, total, SCREENSHOT_ON_FAILURE, screenshots>>

cacheVars == <<instance, lock, initialized, objects, pc, cache, op, ret, resets>>
workerVars == <<wi, wphase, wok>>
ghostVars == <<prevRet, resetSince, everReturned, shadow, written, created>>
retryVars == <<ENABLE_RETRY, MAX_RETRIES, RETRY_DELAY, rpc, max_retries,
               retry_delay, attempt, last_exception, outcomes, sleeps, result,
               requests>>
\* the state of the other components, which the cache and the retry engine
\* leave alone
VARIABLES
    \* ---- TestLogger (logger.py:31-165) and the logging module it drives
    session_start_time, \* TestLogger._session_start_time, None or a time
    log_file_path,      \* TestLogger._log_file_path: <<>> for None
    setup_lock,         \* TestLogger._setup_lock: None or the holder
    loggers,            \* TestLogger._loggers: name -> logger object
    handlers,           \* logging.getLogger().handlers
    manager,            \* the loggers the logging module has created
    now,                \* datetime.now() when lines 55-56 were last reached
    LOG_TO_CONSOLE,     \* Settings.LOG_TO_CONSOLE
    LOG_TO_FILE,        \* Settings.LOG_TO_FILE
    lpc,                \* position of each thread in TestLogger
    lcall,              \* per thread: the call it is in, and its name argument
    lcalls,             \* per thread: number of calls it has made
    firstSetup,         \* observation: timestamp and path after the first setup
    returned            \* observation: per name, the objects get_logger returned

loggerVars == <<session_start_time, log_file_path, setup_lock, loggers, handlers,
                manager, now, LOG_TO_CONSOLE, LOG_TO_FILE, lpc, lcall, lcalls,
                firstSetup, returned>>

VARIABLES
    \* ---- EnvironmentManager (env_config.py:73-282)
    environ,        \* os.environ: variable -> value, "unset" when not set
    config_files,   \* the config file given to the constructor, per manager
    cfgheap,        \* the EnvironmentConfig objects, by reference
    DEFAULT_CONFIGS,\* EnvironmentManager.DEFAULT_CONFIGS: name -> reference
    configs,        \* self._configs: name -> reference
    current_env,    \* self._current_env
    managers        \* number of EnvironmentManager objects constructed

envVars == <<environ, config_files, cfgheap, DEFAULT_CONFIGS, configs, current_env,
             managers>>

VARIABLES
    \* ---- generate_report.py (main and the commands)
    argv,            \* sys.argv[1:]
    allure,          \* what `allure --version` does on this machine
    results_dir,     \* report/allure-results exists
    report_dir,      \* report/allure-report exists
    run_outcome,     \* how the allure subprocess of the command ends
    rmtree_outcome,  \* how shutil.rmtree ends
    gpc,             \* position of the process in main()
    success,         \* the value the command returned
    done,            \* the command did what it is for
    exit_status      \* status of the process, NoStatus while it runs

reportVars == <<argv, allure, results_dir, report_dir, run_outcome, rmtree_outcome,
                gpc, success, done, exit_status>>

VARIABLES
    \* ---- BaseService: the session and the request log (base_service.py:48-173)
    SECRETS,          \* Settings.BEARER_TOKEN, API_KEY, API_KEY_HEADER, BASIC_AUTH_*
    auth_type,        \* argument the service is constructed with
    auth_credentials, \* argument the service is constructed with
    built,            \* the constructor has run
    session_headers,  \* self.session.headers, the credential headers only
    session_auth,     \* self.session.auth
    kwargs,           \* keyword arguments of the request made last
    log_data          \* the request summary logged last

serviceVars == <<SECRETS, auth_type, auth_credentials, built, session_headers,
                 session_auth, kwargs, log_data>>

restVars == <<extractVars, portalVars, pageVars, sessionVars, loggerVars, envVars,
              reportVars, serviceVars>>
\* all of them but one
notExtract == <<portalVars, pageVars, sessionVars, loggerVars, envVars, reportVars,
                serviceVars>>
notPortal == <<extractVars, pageVars, sessionVars, loggerVars, envVars, reportVars,
               serviceVars>>
notPage == <<extractVars, portalVars, sessionVars, loggerVars, envVars, reportVars,
             serviceVars>>
notSession == <<extractVars, portalVars, pageVars, loggerVars, envVars, reportVars,
                serviceVars>>
notLogger == <<extractVars, portalVars, pageVars, sessionVars, envVars, reportVars,
               serviceVars>>
notEnv == <<extractVars, portalVars, pageVars, sessionVars, loggerVars, reportVars,
            serviceVars>>
notReport == <<extractVars, portalVars, pageVars, sessionVars, loggerVars, envVars,
               serviceVars>>
notService == <<extractVars, portalVars, pageVars, sessionVars, loggerVars, envVars,
                reportVars>>
vars == <<cacheVars, workerVars, ghostVars, retryVars, restVars>>

(***************************************************************************)
(* Python dict, as DataCache uses it: a function on the keys present.      *)
(***************************************************************************)
EmptyDict == [k \in {} |-> None]

\* faulty variant: the assignment replaces the whole dict
DictSetLosing(d, k, v) == [x \in {k} |-> v]

\* faulty variant: setdefault, an existing key keeps its value
DictSetIfAbsent(d, k, v) ==
    [x \in (DOMAIN d) \cup {k} |-> IF x \in DOMAIN d THEN d[x] ELSE v]

\* self._data[key] = value
DictSet(d, k, v) == [x \in (DOMAIN d) \cup {k} |-> IF x = k THEN v ELSE d[x]]

\* faulty variant: the default is ignored
DictGetNoDefault(d, k, default) == IF k \in DOMAIN d THEN d[k] ELSE None

\* self._data.get(key, default)
DictGet(d, k, default) == IF k \in DOMAIN d THEN d[k] ELSE default

\* key in self._data
DictHas(d, k) == k \in DOMAIN d

\* self._data.clear()
DictClear(d) == EmptyDict

\* list(self._data.keys())
DictKeys(d) == DOMAIN d

\* len(self._data)
DictLen(d) == Cardinality(DOMAIN d)

(***************************************************************************)
(* Results of calls.                                                       *)
(***************************************************************************)
NoKeys == {}
RetNone == [kind |-> "none", v |-> 0, ks |-> NoKeys]
RetObj(o) == [kind |-> "obj", v |-> o, ks |-> NoKeys]
RetVal(x) == [kind |-> "val", v |-> x, ks |-> NoKeys]
RetBool(b) == [kind |-> "bool", v |-> IF b THEN 1 ELSE 0, ks |-> NoKeys]
RetInt(n) == [kind |-> "int", v |-> n, ks |-> NoKeys]
RetKeys(s) == [kind |-> "keys", v |-> 0, ks |-> s]
\* AttributeError: 'NoneType' / 'DataCache' object has no attribute ...
RetAttributeError == [kind |-> "exc", v |-> 0, ks |-> NoKeys]

NoOp == [name |-> "none", key |-> 0, val |-> 0, dflt |-> 0]
Call(n, k, v, d) == [name |-> n, key |-> k, val |-> v, dflt |-> d]

\* a DataCache object right after cls.__new__(cls): no attribute set yet
NewObject == [has_attrs |-> FALSE, data |-> EmptyDict, data_lock |-> None]

Objs == 1..Len(objects)

\* the plain key-value map an object is compared with: total, -1 for absent
Absent == -1
EmptyShadow == [k \in Keys \cup WorkerKeys |-> Absent]
NotWritten == [val |-> Absent, obj |-> None, by |-> None]

SetObj(o, f, x) == [objects EXCEPT ![o] = [@ EXCEPT ![f] = x]]

(***************************************************************************)
(* DataCache.get_instance / get_cache  (data_cache.py:46-63, 149-156)      *)
(***************************************************************************)
\* line 56, the check outside the lock
FirstCheck(inst) == inst = None

\* faulty variant: no second check, the lock holder always creates
SecondCheckMissing(inst) == TRUE

\* line 59, the check repeated under the lock
SecondCheck(inst) == inst = None

\* a client calls DataCache.get_instance() or get_cache()
CallGetInstance(c, fn) ==
    /\ pc[c] = "idle"
    /\ pc' = [pc EXCEPT ![c] = "gi_check1"]
    /\ op' = [op EXCEPT ![c] = Call(fn, 0, 0, 0)]
    /\ ret' = [ret EXCEPT ![c] = RetNone]
    /\ UNCHANGED <<instance, lock, initialized, objects, cache, resets>>
    /\ UNCHANGED <<workerVars, ghostVars, retryVars, restVars>>

\* line 56: if cls._instance is None
GI_Check1(c) ==
    /\ pc[c] = "gi_check1"
    /\ pc' = [pc EXCEPT ![c] = IF FirstCheck(instance) THEN "gi_lock" ELSE "gi_ret"]
    /\ UNCHANGED <<instance, lock, initialized, objects, cache, op, ret, resets>>
    /\ UNCHANGED <<workerVars, ghostVars, retryVars, restVars>>

\* line 57: with cls._lock
GI_Lock(c) ==
    /\ pc[c] = "gi_lock"
    /\ lock = None
    /\ lock' = c
    /\ pc' = [pc EXCEPT ![c] = "gi_check2"]
    /\ UNCHANGED <<instance, initialized, objects, cache, op, ret, resets>>
    /\ UNCHANGED <<workerVars, ghostVars, retryVars, restVars>>

\* line 59
GI_Check2(c) ==
    /\ pc[c] = "gi_check2"
    /\ pc' = [pc EXCEPT ![c] = IF SecondCheck(instance) THEN "gi_new" ELSE "gi_unlock"]
    /\ UNCHANGED <<instance, lock, initialized, objects, cache, op, ret, resets>>
    /\ UNCHANGED <<workerVars, ghostVars, retryVars, restVars>>

\* line 60: cls._instance = cls.__new__(cls)
GI_New(c) ==
    /\ pc[c] = "gi_new"
    /\ objects' = Append(objects, NewObject)
    /\ instance' = Len(objects) + 1
    /\ shadow' = Append(shadow, EmptyShadow)
    /\ created' = created + 1
    /\ pc' = [pc EXCEPT ![c] = "gi_init"]
    /\ UNCHANGED <<lock, initialized, cache, op, ret, resets>>
    /\ UNCHANGED <<prevRet, resetSince, everReturned, written>>
    /\ UNCHANGED <<workerVars, retryVars, restVars>>

\* line 61: cls._instance.__init__()   (data_cache.py:33-44)
GI_Init(c) ==
    /\ pc[c] = "gi_init"
    /\ IF ~initialized
         THEN /\ objects' = [objects EXCEPT ![instance] =
                     [has_attrs |-> TRUE, data |-> EmptyDict, data_lock |-> None]]
              /\ initialized' = TRUE
         ELSE UNCHANGED <<objects, initialized>>
    /\ pc' = [pc EXCEPT ![c] = "gi_unlock"]
    /\ UNCHANGED <<instance, lock, cache, op, ret, resets>>
    /\ UNCHANGED <<workerVars, ghostVars, retryVars, restVars>>

\* leaving the with block of line 57
GI_Unlock(c) ==
    /\ pc[c] = "gi_unlock"
    /\ lock' = None
    /\ pc' = [pc EXCEPT ![c] = "gi_ret"]
    /\ UNCHANGED <<instance, initialized, objects, cache, op, ret, resets>>
    /\ UNCHANGED <<workerVars, ghostVars, retryVars, restVars>>

\* line 63: return cls._instance; the caller keeps the reference
\* (base_service.py:66 self.cache = ..., or a local `cache = ...`)
GI_Ret(c) ==
    /\ pc[c] = "gi_ret"
    /\ cache' = [cache EXCEPT ![c] = instance]
    /\ op' = [op EXCEPT ![c] = NoOp]
    /\ prevRet' = instance
    /\ resetSince' = FALSE
    /\ everReturned' = everReturned \cup {instance}
    /\ pc' = [pc EXCEPT ![c] = "idle"]
    /\ UNCHANGED <<instance, lock, initialized, objects, ret, resets>>
    /\ UNCHANGED <<shadow, written, created>>
    /\ UNCHANGED <<workerVars, retryVars, restVars>>

(***************************************************************************)
(* Observation of writes and clears, kept apart from the dict itself.      *)
(***************************************************************************)
ShadowSet(o, k, v) == [shadow EXCEPT ![o] = [@ EXCEPT ![k] = v]]
ShadowClear(o) == [shadow EXCEPT ![o] = EmptyShadow]
WrittenSet(c, o, k, v) == [written EXCEPT ![k] = [val |-> v, obj |-> o, by |-> c]]
WrittenClear == [k \in DOMAIN written |-> NotWritten]

(***************************************************************************)
(* DataCache.reset_instance  (data_cache.py:134-145)                       *)
(***************************************************************************)
\* faulty variant: the reset only clears, the instance stays
AfterResetKept(inst) == inst

\* line 144: cls._instance = None
AfterReset(inst) == None

CallReset(c) ==
    /\ pc[c] = "idle"
    /\ resets < MaxResets
    /\ resets' = resets + 1
    /\ resetSince' = TRUE
    /\ pc' = [pc EXCEPT ![c] = "ri_lock"]
    /\ op' = [op EXCEPT ![c] = Call("reset_instance", 0, 0, 0)]
    /\ ret' = [ret EXCEPT ![c] = RetNone]
    /\ UNCHANGED <<instance, lock, initialized, objects, cache>>
    /\ UNCHANGED <<prevRet, everReturned, shadow, written, created>>
    /\ UNCHANGED <<workerVars, retryVars, restVars>>

\* line 141: with cls._lock
RI_Lock(c) ==
    /\ pc[c] = "ri_lock"
    /\ lock = None
    /\ lock' = c
    /\ pc' = [pc EXCEPT ![c] = "ri_check"]
    /\ UNCHANGED <<instance, initialized, objects, cache, op, ret, resets>>
    /\ UNCHANGED <<workerVars, ghostVars, retryVars, restVars>>

\* line 142: if cls._instance is not None
RI_Check(c) ==
    /\ pc[c] = "ri_check"
    /\ pc' = [pc EXCEPT ![c] = IF instance # None THEN "ri_clear_lock" ELSE "ri_unlock"]
    /\ UNCHANGED <<instance, lock, initialized, objects, cache, op, ret, resets>>
    /\ UNCHANGED <<workerVars, ghostVars, retryVars, restVars>>

\* line 143: cls._instance.clear() -- entering with self._data_lock (line 111);
\* an object without attributes raises AttributeError, which leaves the
\* with block of line 141 and so releases the class lock
RI_ClearLock(c) ==
    /\ pc[c] = "ri_clear_lock"
    /\ IF ~objects[instance].has_attrs
         THEN /\ lock' = None
              /\ ret' = [ret EXCEPT ![c] = RetAttributeError]
              /\ pc' = [pc EXCEPT ![c] = "raised"]
              /\ UNCHANGED objects
         ELSE /\ objects[instance].data_lock = None
              /\ objects' = SetObj(instance, "data_lock", c)
              /\ pc' = [pc EXCEPT ![c] = "ri_clear_do"]
              /\ UNCHANGED <<lock, ret>>
    /\ UNCHANGED <<instance, initialized, cache, op, resets>>
    /\ UNCHANGED <<workerVars, ghostVars, retryVars, restVars>>

\* line 112 on behalf of line 143
RI_ClearDo(c) ==
    /\ pc[c] = "ri_clear_do"
    /\ objects' = SetObj(instance, "data", DictClear(objects[instance].data))
    /\ shadow' = ShadowClear(instance)
    /\ written' = WrittenClear
    /\ pc' = [pc EXCEPT ![c] = "ri_clear_unlock"]
    /\ UNCHANGED <<instance, lock, initialized, cache, op, ret, resets>>
    /\ UNCHANGED <<prevRet, resetSince, everReturned, created>>
    /\ UNCHANGED <<workerVars, retryVars, restVars>>

RI_ClearUnlock(c) ==
    /\ pc[c] = "ri_clear_unlock"
    /\ objects' = SetObj(instance, "data_lock", None)
    /\ pc' = [pc EXCEPT ![c] = "ri_none"]
    /\ UNCHANGED <<instance, lock, initialized, cache, op, ret, resets>>
    /\ UNCHANGED <<workerVars, ghostVars, retryVars, restVars>>

\* line 144
RI_None(c) ==
    /\ pc[c] = "ri_none"
    /\ instance' = AfterReset(instance)
    /\ pc' = [pc EXCEPT ![c] = "ri_uninit"]
    /\ UNCHANGED <<lock, initialized, objects, cache, op, ret, resets>>
    /\ UNCHANGED <<workerVars, ghostVars, retryVars, restVars>>

\* line 145: cls._initialized = False
RI_Uninit(c) ==
    /\ pc[c] = "ri_uninit"
    /\ initialized' = FALSE
    /\ pc' = [pc EXCEPT ![c] = "ri_unlock"]
    /\ UNCHANGED <<instance, lock, objects, cache, op, ret, resets>>
    /\ UNCHANGED <<workerVars, ghostVars, retryVars, restVars>>

RI_Unlock(c) ==
    /\ pc[c] = "ri_unlock"
    /\ lock' = None
    /\ op' = [op EXCEPT ![c] = NoOp]
    /\ pc' = [pc EXCEPT ![c] = "idle"]
    /\ UNCHANGED <<instance, initialized, objects, cache, ret, resets>>
    /\ UNCHANGED <<workerVars, ghostVars, retryVars, restVars>>

(***************************************************************************)
(* DataCache.set/get/has/clear/get_all_keys/size  (data_cache.py:65-132)   *)
(* called on the reference the client holds.                               *)
(***************************************************************************)
OpNames == {"set", "get", "has", "clear", "get_all_keys", "size"}

\* what the body of the method returns, given the dict it sees
OpResult(o, d) ==
    CASE o.name = "set" -> RetNone
      [] o.name = "get" -> RetVal(DictGet(d, o.key, o.dflt))
      [] o.name = "has" -> RetBool(DictHas(d, o.key))
      [] o.name = "clear" -> RetNone
      [] o.name = "get_all_keys" -> RetKeys(DictKeys(d))
      [] o.name = "size" -> RetInt(DictLen(d))

\* faulty variant: set does not overwrite
OpEffectSetOnce(o, d) ==
    CASE o.name = "set" -> DictSetIfAbsent(d, o.key, o.val)
      [] o.name = "clear" -> DictClear(d)
      [] OTHER -> d

\* the dict the body of the method leaves behind
OpEffect(o, d) ==
    CASE o.name = "set" -> DictSet(d, o.key, o.val)
      [] o.name = "clear" -> DictClear(d)
      [] OTHER -> d

StartOp(c, o) ==
    /\ pc[c] = "idle"
    /\ cache[c] # Unbound
    /\ pc' = [pc EXCEPT ![c] = "op_lock"]
    /\ op' = [op EXCEPT ![c] = o]
    /\ ret' = [ret EXCEPT ![c] = RetNone]
    /\ UNCHANGED <<instance, lock, initialized, objects, cache, resets>>

\* a client (a test, a fixture, a BaseService through self.cache) calls a
\* method of the DataCache it holds
CallOp(c, o) ==
    /\ StartOp(c, o)
    /\ UNCHANGED <<workerVars, ghostVars, retryVars, restVars>>

\* with self._data_lock: None has no such attribute, and neither has an
\* object whose __init__ has not set it
OP_Lock(c) ==
    /\ pc[c] = "op_lock"
    /\ IF cache[c] = None \/ ~objects[cache[c]].has_attrs
         THEN /\ ret' = [ret EXCEPT ![c] = RetAttributeError]
              /\ pc' = [pc EXCEPT ![c] = "raised"]
              /\ UNCHANGED objects
         ELSE /\ objects[cache[c]].data_lock = None
              /\ objects' = SetObj(cache[c], "data_lock", c)
              /\ pc' = [pc EXCEPT ![c] = "op_do"]
              /\ UNCHANGED ret
    /\ UNCHANGED <<instance, lock, initialized, cache, op, resets>>
    /\ UNCHANGED <<workerVars, ghostVars, retryVars, restVars>>

\* the body of the method, under the data lock
OP_Do(c) ==
    /\ pc[c] = "op_do"
    /\ LET self == cache[c]
           d == objects[self].data
       IN  /\ ret' = [ret EXCEPT ![c] = OpResult(op[c], d)]
           /\ objects' = SetObj(self, "data", OpEffect(op[c], d))
           /\ shadow' = CASE op[c].name = "set" -> ShadowSet(self, op[c].key, op[c].val)
                          [] op[c].name = "clear" -> ShadowClear(self)
                          [] OTHER -> shadow
           /\ written' = CASE op[c].name = "set" -> WrittenSet(c, self, op[c].key, op[c].val)
                           [] op[c].name = "clear" -> WrittenClear
                           [] OTHER -> written
    /\ pc' = [pc EXCEPT ![c] = "op_unlock"]
    /\ UNCHANGED <<instance, lock, initialized, cache, op, resets>>
    /\ UNCHANGED <<prevRet, resetSince, everReturned, created>>
    /\ UNCHANGED <<workerVars, retryVars, restVars>>

\* leaving the with block: the value goes to the caller; the threads of
\* test_thread_safety keep it for their assertion, a portal operation for
\* its headers
OP_Unlock(c) ==
    /\ pc[c] = "op_unlock"
    /\ objects' = SetObj(cache[c], "data_lock", None)
    /\ pc' = [pc EXCEPT ![c] = "idle"]
    /\ op' = [op EXCEPT ![c] = NoOp]
    /\ ret' = [ret EXCEPT ![c] = IF wphase[c] = "none" /\ pphase[c] = "none"
                                   THEN RetNone ELSE ret[c]]
    /\ UNCHANGED <<instance, lock, initialized, cache, resets>>
    /\ UNCHANGED <<workerVars, ghostVars, retryVars, restVars>>

\* the AttributeError reaches the caller
Raised(c) ==
    /\ pc[c] = "raised"
    /\ pc' = [pc EXCEPT ![c] = "idle"]
    /\ op' = [op EXCEPT ![c] = NoOp]
    /\ ret' = [ret EXCEPT ![c] = RetNone]
    /\ UNCHANGED <<instance, lock, initialized, objects, cache, resets>>
    /\ UNCHANGED <<workerVars, ghostVars, retryVars, restVars>>

(***************************************************************************)
(* worker(thread_id) of test_thread_safety  (test_data_cache.py:154-165)   *)
(***************************************************************************)
\* key = f"thread_{thread_id}_key_{i}": one key per (thread, i)
WorkerKey(t, i) == (t - 1) * OpsPerThread + i + 1
\* value = f"thread_{thread_id}_value_{i}"
WorkerValue(t, i) == 10 * t + i

\* line 160: cache.set(key, value)
W_Set(t) ==
    /\ wphase[t] = "set"
    /\ StartOp(t, Call("set", WorkerKey(t, wi[t]), WorkerValue(t, wi[t]), None))
    /\ wphase' = [wphase EXCEPT ![t] = "get"]
    /\ UNCHANGED <<wi, wok, ghostVars, retryVars, restVars>>

\* line 163, the call: cache.get(key)
W_Get(t) ==
    /\ wphase[t] = "get"
    /\ StartOp(t, Call("get", WorkerKey(t, wi[t]), 0, None))
    /\ wphase' = [wphase EXCEPT ![t] = "assert_get"]
    /\ UNCHANGED <<wi, wok, ghostVars, retryVars, restVars>>

\* line 163, the assertion: assert ... == value
W_AssertGet(t) ==
    /\ wphase[t] = "assert_get"
    /\ pc[t] = "idle"
    /\ IF ret[t] = RetVal(WorkerValue(t, wi[t]))
         THEN wphase' = [wphase EXCEPT ![t] = "has"] /\ UNCHANGED wok
         ELSE wphase' = [wphase EXCEPT ![t] = "failed"] /\ wok' = [wok EXCEPT ![t] = FALSE]
    /\ UNCHANGED <<wi, cacheVars, ghostVars, retryVars, restVars>>

\* line 164, the call: cache.has(key)
W_Has(t) ==
    /\ wphase[t] = "has"
    /\ StartOp(t, Call("has", WorkerKey(t, wi[t]), 0, 0))
    /\ wphase' = [wphase EXCEPT ![t] = "assert_has"]
    /\ UNCHANGED <<wi, wok, ghostVars, retryVars, restVars>>

\* line 164, the assertion, and the next iteration of line 155
W_AssertHas(t) ==
    /\ wphase[t] = "assert_has"
    /\ pc[t] = "idle"
    /\ IF ret[t] = RetBool(TRUE)
         THEN /\ wi' = [wi EXCEPT ![t] = wi[t] + 1]
              /\ wphase' = [wphase EXCEPT ![t] =
                     IF wi[t] + 1 < OpsPerThread THEN "set" ELSE "done"]
              /\ UNCHANGED wok
         ELSE /\ wphase' = [wphase EXCEPT ![t] = "failed"]
              /\ wok' = [wok EXCEPT ![t] = FALSE]
              /\ UNCHANGED wi
    /\ UNCHANGED <<cacheVars, ghostVars, retryVars, restVars>>

\* lines 174-179: after joining every thread, cache.size()
W_MainSize ==
    /\ \A t \in Workers : wphase[t] \in {"done", "failed"}
    /\ wphase[Main] = "join"
    /\ StartOp(Main, Call("size", 0, 0, 0))
    /\ wphase' = [wphase EXCEPT ![Main] = "assert_size"]
    /\ UNCHANGED <<wi, wok, ghostVars, retryVars, restVars>>

(***************************************************************************)
(* Initial states.                                                         *)
(***************************************************************************)
\* no exception: the value None of last_exception
NoException == [kind |-> "None", at |-> 0, status |-> 0]
\* the call has not ended
Pending == [how |-> "pending", kind |-> "None", at |-> 0, status |-> 0]

RetryIdle ==
    /\ rpc = "idle"
    /\ max_retries = 0
    /\ retry_delay = 0
    /\ attempt = 0
    /\ last_exception = NoException
    /\ outcomes = <<>>
    /\ sleeps = <<>>
    /\ result = Pending
    /\ requests = 0

RetryOff ==
    /\ ENABLE_RETRY = FALSE
    /\ MAX_RETRIES = 0
    /\ RETRY_DELAY = 0
    /\ RetryIdle

\* the class as the module defines it (data_cache.py:29-31), nobody holds it
CacheInit ==
    /\ instance = None
    /\ lock = None
    /\ initialized = FALSE
    /\ objects = <<>>
    /\ pc = [c \in Procs |-> "idle"]
    /\ cache = [c \in Procs |-> Unbound]
    /\ op = [c \in Procs |-> NoOp]
    /\ ret = [c \in Procs |-> RetNone]
    /\ resets = 0
    /\ wi = [c \in Procs |-> 0]
    /\ wphase = [c \in Procs |-> "none"]
    /\ wok = [c \in Procs |-> TRUE]
    /\ prevRet = None
    /\ resetSince = FALSE
    /\ everReturned = {}
    /\ shadow = <<>>
    /\ written = [k \in Keys \cup WorkerKeys |-> NotWritten]
    /\ created = 0

(***************************************************************************)
(* JSON values, as response.json() returns them.                           *)
(***************************************************************************)
NoMembers == [s \in {} |-> 0]
\* None, the value of JSON null and the absent-value sentinel
JsonNull == [t |-> "null", v |-> 0, s |-> "", m |-> NoMembers, l |-> <<>>]
JsonInt(n) == [t |-> "int", v |-> n, s |-> "", m |-> NoMembers, l |-> <<>>]
JsonStr(x) == [t |-> "str", v |-> 0, s |-> x, m |-> NoMembers, l |-> <<>>]
JsonDict(members) == [t |-> "dict", v |-> 0, s |-> "", m |-> members, l |-> <<>>]
JsonList(items) == [t |-> "list", v |-> 0, s |-> "", m |-> NoMembers, l |-> items]

\* json_path = None
NoPath == <<"None">>
\* a path string is the sequence of the pieces its dots separate; the empty
\* string has one empty piece
Path(pieces) == <<"str", pieces>>
EmptyString == Path(<<"">>)

\* response bodies: the one of test_extract_and_cache, a body with a list,
\* with a null member, a list, a number and null
Bodies ==
    { JsonDict([s \in {"data"} |->
         JsonDict([u \in {"user"} |->
            JsonDict([f \in {"id", "name"} |->
               IF f = "id" THEN JsonInt(123) ELSE JsonStr("John Doe")])])]),
      JsonDict([s \in {"items", "data"} |->
         IF s = "items"
           THEN JsonList(<<JsonDict([f \in {"id"} |-> JsonInt(7)]), JsonInt(8)>>)
           ELSE JsonNull]),
      JsonList(<<JsonInt(1), JsonList(<<JsonStr("a")>>)>>),
      JsonInt(5),
      JsonNull }

\* the response argument: a body that parses, or one that does not
Responses ==
    {[valid |-> TRUE, body |-> b] : b \in Bodies}
    \cup {[valid |-> FALSE, body |-> JsonNull]}

\* json_path arguments
JsonPaths ==
    { NoPath, EmptyString,
      Path(<<"data">>), Path(<<"data", "user", "id">>),
      Path(<<"data", "user", "missing">>), Path(<<"data", "user", "id", "x">>),
      Path(<<"items", "0", "id">>), Path(<<"items", "1">>),
      Path(<<"items", "-1">>), Path(<<"items", "2">>), Path(<<"items", "-3">>),
      Path(<<"items", "id">>), Path(<<"items", "">>),
      Path(<<"0">>), Path(<<"1", "0">>), Path(<<"data", "x">>) }

\* the strings int() accepts among the pieces above, and their values
IntLiterals == [s \in {"0", "1", "2", "-1", "-3"} |->
                  CASE s = "0" -> 0 [] s = "1" -> 1 [] s = "2" -> 2
                    [] s = "-1" -> -1 [] s = "-3" -> -3]

NoResult == [how |-> "pending", value |-> JsonNull]
Returned(v) == [how |-> "returned", value |-> v]
RaisedValueError == [how |-> "ValueError", value |-> JsonNull]

ExtractIdle ==
    /\ response = [valid |-> FALSE, body |-> JsonNull]
    /\ cache_key = None
    /\ json_path = NoPath
    /\ extracted = NoResult

\* no portal operation is running and no request was sent
PortalIdle ==
    /\ pphase = [c \in Procs |-> "none"]
    /\ authorization = Unbound
    /\ sentBefore = Unbound

\* no primitive was called; the screenshot directory is empty
NoPageCall == [op |-> "none", wait |-> "ok", exc |-> "ok"]
PageIdle ==
    /\ files = {}
    /\ clock = 0
    /\ presult = NoPageCall
    /\ captures = <<>>
    /\ newFiles = {}

\* the counters as conftest.py:11 creates them
NoResults == [passed |-> 0, failed |-> 0, skipped |-> 0, error |-> 0]
\* no test is running
NoItem == [kind |-> "none", rep_setup |-> "none", rep_call |-> "none",
           rep_teardown |-> "none"]
\* no test has run
SessionStart ==
    /\ TEST_RESULTS = NoResults
    /\ sphase = "idle"
    /\ item = NoItem
    /\ tests = 0
    /\ counted = NoResults
    /\ td_logged = {}
    /\ td_raised = {}
    /\ total = 0
    /\ screenshots = <<>>

\* settings.py:188, the default
SessionIdle ==
    /\ SessionStart
    /\ SCREENSHOT_ON_FAILURE = TRUE

\* TestLogger._log_file_path = None
NoLogPath == <<>>
\* nothing observed yet
NoSetup == [ts |-> None, path |-> NoLogPath, runs |-> 0, last |-> 0]
NoLoggerCall == [fn |-> "none", name |-> ""]
\* the names loggers are asked for
LoggerNames == {"PageFixture", "APIEnvironment"}

\* the class as logger.py:31-35 defines it; no logger exists
LoggerStart ==
    /\ session_start_time = None
    /\ log_file_path = NoLogPath
    /\ setup_lock = None
    /\ loggers = [n \in {} |-> 0]
    /\ handlers = <<>>
    /\ manager = [n \in {} |-> 0]
    /\ now = 1
    /\ lpc = [t \in Clients |-> "idle"]
    /\ lcall = [t \in Clients |-> NoLoggerCall]
    /\ lcalls = [t \in Clients |-> 0]
    /\ firstSetup = NoSetup
    /\ returned = [n \in LoggerNames |-> {}]

LoggerIdle ==
    /\ LoggerStart
    /\ LOG_TO_CONSOLE = TRUE
    /\ LOG_TO_FILE = TRUE

\* os.getenv(X) is None
Unset == "unset"
\* the names _load_from_env, _load_from_file and switch_env accept
EnvNames == {"dev", "test", "staging", "prod"}
\* the values _load_from_env accepts for BROWSER_TYPE
BrowserTypes == {"chromium", "firefox", "webkit"}
\* no config file given, or the file does not exist
NoFile == [env |-> "none", api_base_url |-> Unset, browser_type |-> Unset]

\* EnvironmentConfig(name=..., api_base_url=...): the other fields keep the
\* defaults of the dataclass; two of the overridable fields are followed
EnvironmentConfig(name, api_base_url) ==
    [name |-> name, api_base_url |-> api_base_url, browser_type |-> "chromium"]

\* the four objects the class attribute DEFAULT_CONFIGS holds
DefaultObjects ==
    << EnvironmentConfig("dev", "http://localhost:3000"),
       EnvironmentConfig("test", "https://test-api.example.com"),
       EnvironmentConfig("staging", "https://staging-api.example.com"),
       EnvironmentConfig("prod", "https://api.example.com") >>

DefaultRefs == [e \in EnvNames |-> CHOOSE r \in 1..4 : DefaultObjects[r].name = e]

\* the module is loaded and no EnvironmentManager exists
EnvStart ==
    /\ config_files = <<>>
    /\ cfgheap = DefaultObjects
    /\ DEFAULT_CONFIGS = DefaultRefs
    /\ configs = [e \in {} |-> 0]
    /\ current_env = "None"
    /\ managers = 0

EnvIdle ==
    /\ EnvStart
    /\ environ = [TEST_ENV |-> Unset, API_BASE_URL |-> Unset, BROWSER_TYPE |-> Unset]

\* the process has not exited
NoStatus == -1

\* generate_report.py is not running
ReportStart ==
    /\ gpc = "main"
    /\ success = "unset"
    /\ done = FALSE
    /\ exit_status = NoStatus

ReportIdle ==
    /\ ReportStart
    /\ argv = <<>>
    /\ allure = "installed"
    /\ results_dir = FALSE
    /\ report_dir = FALSE
    /\ run_outcome = "ok"
    /\ rmtree_outcome = "ok"

\* a value that is None
NoString == <<>>
\* a string value; f-strings are kept as their pieces
Str(s) == <<s>>
\* no dict was passed
NoDict == [given |-> FALSE, map |-> [k \in {} |-> NoString]]
Dict(m) == [given |-> TRUE, map |-> m]
\* HTTPBasicAuth(username, password); NoAuth is session.auth = None
NoAuth == <<>>
HTTPBasicAuth(username, password) == <<username, password>>

\* no service was constructed and no request made
ServiceStart ==
    /\ built = FALSE
    /\ session_headers = [h \in {} |-> NoString]
    /\ session_auth = NoAuth
    /\ kwargs = [has |-> {}, params |-> NoString, json |-> NoString, data |-> NoString,
                 headers |-> [h \in {} |-> NoString]]
    /\ log_data = [has |-> {}, method |-> "", url |-> "", params |-> NoString,
                   json_body |-> NoString, data |-> NoString,
                   headers |-> [h \in {} |-> NoString]]

ServiceIdle ==
    /\ ServiceStart
    /\ auth_type = "None"
    /\ auth_credentials = NoDict
    /\ SECRETS = [BEARER_TOKEN |-> NoString, API_KEY |-> NoString,
                  API_KEY_HEADER |-> Str("X-API-Key"),
                  BASIC_AUTH_USERNAME |-> NoString, BASIC_AUTH_PASSWORD |-> NoString]

\* the other components before anything used them
RestIdle ==
    /\ ExtractIdle
    /\ PortalIdle
    /\ PageIdle
    /\ SessionIdle
    /\ ServiceIdle
    /\ ReportIdle
    /\ LoggerIdle
    /\ EnvIdle

Init == CacheInit /\ RetryOff /\ RestIdle

\* test_thread_safety, lines 148-149 done: the instance exists and is empty,
\* and every thread sees it through the closure variable `cache`
WorkersInit ==
    /\ instance = 1
    /\ lock = None
    /\ initialized = TRUE
    /\ objects = <<[has_attrs |-> TRUE, data |-> EmptyDict, data_lock |-> None]>>
    /\ pc = [c \in Procs |-> "idle"]
    /\ cache = [c \in Procs |-> 1]
    /\ op = [c \in Procs |-> NoOp]
    /\ ret = [c \in Procs |-> RetNone]
    /\ resets = 0
    /\ wi = [c \in Procs |-> 0]
    /\ wphase = [c \in Procs |-> IF c \in Workers THEN "set"
                                 ELSE IF c = Main THEN "join" ELSE "none"]
    /\ wok = [c \in Procs |-> TRUE]
    /\ prevRet = 1
    /\ resetSince = FALSE
    /\ everReturned = {1}
    /\ shadow = <<EmptyShadow>>
    /\ written = [k \in Keys \cup WorkerKeys |-> NotWritten]
    /\ created = 1
    /\ RetryOff
    /\ RestIdle

(***************************************************************************)
(* Specifications of the cache.                                            *)
(***************************************************************************)
\* the calls a test makes on the cache it holds
AllCalls ==
    {Call("set", k, v, None) : k \in Keys, v \in Values}
    \cup {Call("get", k, 0, d) : k \in Keys, d \in Values}
    \cup {Call("has", k, 0, 0) : k \in Keys}
    \cup {Call("clear", 0, 0, 0), Call("get_all_keys", 0, 0, 0), Call("size", 0, 0, 0)}

\* the calls of clients that share one key (extract_and_cache,
\* get_cached_value, a fixture clearing the cache)
SharedKeyCalls ==
    {Call("set", 1, v, None) : v \in Values}
    \cup {Call("get", 1, 0, d) : d \in Values}
    \cup {Call("clear", 0, 0, 0)}

\* the call of the threads that race on the accessor
RaceCalls == {Call("size", 0, 0, 0)}

\* DataCache.get_instance() / get_cache(), step by step
AccessorStep(c, accessors) ==
    \/ \E fn \in accessors : CallGetInstance(c, fn)
    \/ GI_Check1(c)
    \/ GI_Lock(c)
    \/ GI_Check2(c)
    \/ GI_New(c)
    \/ GI_Init(c)
    \/ GI_Unlock(c)
    \/ GI_Ret(c)

\* DataCache.reset_instance(), step by step
ResetStep(c) ==
    \/ CallReset(c)
    \/ RI_Lock(c)
    \/ RI_Check(c)
    \/ RI_ClearLock(c)
    \/ RI_ClearDo(c)
    \/ RI_ClearUnlock(c)
    \/ RI_None(c)
    \/ RI_Uninit(c)
    \/ RI_Unlock(c)

\* a method of the DataCache object the client holds, step by step
MethodStep(c, calls) ==
    \/ \E o \in calls : CallOp(c, o)
    \/ OP_Lock(c)
    \/ OP_Do(c)
    \/ OP_Unlock(c)

\* one thread, several holders of a cache reference (services, fixtures,
\* tests): a call runs to its end before the next one starts
SeqNext ==
    \E c \in Clients :
        /\ \A o \in Procs \ {c} : pc[o] = "idle"
        /\ \/ AccessorStep(c, {"get_instance", "get_cache"})
           \/ ResetStep(c)
           \/ MethodStep(c, SharedKeyCalls)

SpecSeq == Init /\ [][SeqNext]_vars

\* one test using every method of the cache it fetched
MapNext ==
    \/ AccessorStep(1, {"get_instance"})
    \/ MethodStep(1, AllCalls)

SpecMap == Init /\ [][MapNext]_vars

\* several threads: the steps of their calls interleave
Next ==
    \E c \in Clients :
        \/ AccessorStep(c, {"get_instance"})
        \/ ResetStep(c)
        \/ MethodStep(c, RaceCalls)
        \/ Raised(c)

Spec == Init /\ [][Next]_vars

WorkerStep(t) ==
    \/ W_Set(t)
    \/ W_Get(t)
    \/ W_AssertGet(t)
    \/ W_Has(t)
    \/ W_AssertHas(t)
    \/ OP_Lock(t)
    \/ OP_Do(t)
    \/ OP_Unlock(t)

WorkersNext ==
    \/ \E t \in Workers : WorkerStep(t)
    \/ W_MainSize
    \/ OP_Lock(Main)
    \/ OP_Do(Main)
    \/ OP_Unlock(Main)

SpecWorkers == WorkersInit /\ [][WorkersNext]_vars

(***************************************************************************)
(* BaseService._make_request_with_retry  (base_service.py:196-287)         *)
(***************************************************************************)
\* status codes a server answers with
Statuses == {200, 304, 400, 404, 500, 503}

\* what one call of self.session.request produces: a response, or one of the
\* exceptions of requests.exceptions
Outcomes ==
    [kind : {"Response"}, status : Statuses]
    \cup [kind : {"ConnectionError", "Timeout", "RequestException"}, status : {0}]

\* line 250: response.raise_for_status() raises HTTPError for 4xx and 5xx
RaisesForStatus(status) == status >= 400 /\ status < 600

\* faulty variant: ENABLE_RETRY is not consulted
EffectiveMaxRetriesAlways(enable, m) == m

\* line 217: max_retries = Settings.MAX_RETRIES if Settings.ENABLE_RETRY else 0
EffectiveMaxRetries(enable, m) == IF enable THEN m ELSE 0

\* faulty variant: range(max_retries)
InRangeShort(a, m) == a < m

\* line 222: attempt in range(max_retries + 1)
InRange(a, m) == a < m + 1

\* faulty variant: only the first error is remembered
KeepFirst(last, e) == IF last = NoException THEN e ELSE last

\* lines 256 and 274: last_exception = e
KeepLast(last, e) == e

\* faulty variant: 4xx is retried as well
RetryAnyHttpError(status) == status >= 400

\* faulty variant: > instead of >=
RetryAbove500(status) == status > 500

\* line 273: e.response.status_code >= 500
IsRetryableStatus(status) == status >= 500

\* lines 261 and 273: attempt < max_retries
CanRetry(a, m) == a < m

Exception(kind, at, status) == [kind |-> kind, at |-> at, status |-> status]
Raise(e) == [how |-> "raised", kind |-> e.kind, at |-> e.at, status |-> e.status]
Return(at, status) == [how |-> "returned", kind |-> "Response", at |-> at, status |-> status]
ReturnNone == [how |-> "returned", kind |-> "None", at |-> 0, status |-> 0]

\* get/post/put/delete/patch -> _make_request_with_retry, lines 217-220
StartRequest ==
    /\ rpc \in {"idle", "done"}
    /\ requests < MaxRequests
    /\ requests' = requests + 1
    /\ max_retries' = EffectiveMaxRetries(ENABLE_RETRY, MAX_RETRIES)
    /\ retry_delay' = RETRY_DELAY
    /\ last_exception' = NoException
    /\ attempt' = 0
    /\ outcomes' = <<>>
    /\ sleeps' = <<>>
    /\ result' = Pending
    /\ rpc' = IF InRange(0, max_retries') THEN "loop" ELSE "after_loop"
    /\ UNCHANGED <<ENABLE_RETRY, MAX_RETRIES, RETRY_DELAY>>
    /\ UNCHANGED <<cacheVars, workerVars, ghostVars, restVars>>

\* the loop goes on to the next value of attempt, or ends
NextIteration ==
    /\ attempt' = attempt + 1
    /\ rpc' = IF InRange(attempt + 1, max_retries) THEN "loop" ELSE "after_loop"
    /\ result' = Pending

\* faulty variant: the delay is not doubled
BackoffConstant ==
    /\ sleeps' = Append(sleeps, retry_delay)
    /\ retry_delay' = retry_delay

\* time.sleep(retry_delay); retry_delay *= 2
Backoff ==
    /\ sleeps' = Append(sleeps, retry_delay)
    /\ retry_delay' = retry_delay * 2

\* one iteration of the loop, lines 222-283, whose session.request call
\* produces outcome x
Attempt(x) ==
    /\ rpc = "loop"
    /\ outcomes' = Append(outcomes, x)
    /\ LET n == Len(outcomes) + 1 IN
       CASE x.kind = "Response" /\ ~RaisesForStatus(x.status) ->
               \* line 252
               /\ result' = Return(n, x.status)
               /\ rpc' = "done"
               /\ UNCHANGED <<attempt, last_exception, sleeps, retry_delay>>
         [] x.kind = "Response" /\ RaisesForStatus(x.status) ->
               \* lines 269-278
               IF IsRetryableStatus(x.status) /\ CanRetry(attempt, max_retries)
                 THEN /\ last_exception' = KeepLast(last_exception, Exception("HTTPError", n, x.status))
                      /\ Backoff
                      /\ NextIteration
                 ELSE /\ result' = Raise(Exception("HTTPError", n, x.status))
                      /\ rpc' = "done"
                      /\ UNCHANGED <<attempt, last_exception, sleeps, retry_delay>>
         [] x.kind \in {"ConnectionError", "Timeout"} ->
               \* lines 254-267
               /\ last_exception' = KeepLast(last_exception, Exception(x.kind, n, 0))
               /\ IF CanRetry(attempt, max_retries)
                    THEN Backoff
                    ELSE UNCHANGED <<sleeps, retry_delay>>
               /\ NextIteration
         [] x.kind = "RequestException" ->
               \* lines 280-283
               /\ result' = Raise(Exception("RequestException", n, 0))
               /\ rpc' = "done"
               /\ UNCHANGED <<attempt, last_exception, sleeps, retry_delay>>
    /\ UNCHANGED <<ENABLE_RETRY, MAX_RETRIES, RETRY_DELAY, max_retries, requests>>
    /\ UNCHANGED <<cacheVars, workerVars, ghostVars, restVars>>

\* lines 285-287: if last_exception: raise last_exception; otherwise the
\* function ends and returns None
AfterLoop ==
    /\ rpc = "after_loop"
    /\ result' = IF last_exception # NoException THEN Raise(last_exception) ELSE ReturnNone
    /\ rpc' = "done"
    /\ UNCHANGED <<ENABLE_RETRY, MAX_RETRIES, RETRY_DELAY, max_retries, retry_delay,
                   attempt, last_exception, outcomes, sleeps, requests>>
    /\ UNCHANGED <<cacheVars, workerVars, ghostVars, restVars>>

\* the settings Settings.validate accepts (settings.py:250-255): a retry
\* count and a delay that are not negative
RetryInit ==
    /\ ENABLE_RETRY \in BOOLEAN
    /\ MAX_RETRIES \in 0..MaxRetriesBound
    /\ RETRY_DELAY \in 0..MaxRetryDelay
    /\ RetryIdle
    /\ CacheInit
    /\ RestIdle

RetryNext ==
    \/ StartRequest
    \/ \E x \in Outcomes : Attempt(x)
    \/ AfterLoop

SpecRetry == RetryInit /\ [][RetryNext]_vars

\* all the settings the process can run with: Settings.validate only warns
\* about a negative retry count (settings.py:250-252, 330-334), so
\* MAX_RETRIES is whatever int() made of the environment variable
RetryAnyInit ==
    /\ ENABLE_RETRY \in BOOLEAN
    /\ MAX_RETRIES \in (0 - MaxRetriesBound)..MaxRetriesBound
    /\ RETRY_DELAY \in 0..MaxRetryDelay
    /\ RetryIdle
    /\ CacheInit
    /\ RestIdle

SpecRetryAny == RetryAnyInit /\ [][RetryNext]_vars

(***************************************************************************)
(* BaseService.extract_and_cache  (base_service.py:359-443)                *)
(***************************************************************************)
\* lines 423-441: the loop over path.split('.')
RECURSIVE WalkPath(_, _)
WalkPath(current, keys) ==
    IF keys = <<>> THEN current
    ELSE LET key == Head(keys) IN
         IF current.t = "list"
           THEN IF key \notin DOMAIN IntLiterals
                  THEN JsonNull                       \* ValueError
                  ELSE LET index == IntLiterals[key]
                           n == Len(current.l)
                       IN  IF index >= n \/ index < -n
                             THEN JsonNull            \* IndexError
                             ELSE WalkPath(current.l[IF index >= 0
                                                       THEN index + 1
                                                       ELSE n + index + 1],
                                           Tail(keys))
         ELSE IF current.t = "dict"
           THEN IF key \in DOMAIN current.m
                  THEN WalkPath(current.m[key], Tail(keys))
                  ELSE JsonNull                       \* KeyError
         ELSE JsonNull                                \* line 435

\* _extract_by_path, lines 417-443
ExtractByPath(data, path) ==
    IF path = EmptyString THEN data ELSE WalkPath(data, path[2])

\* faulty variant: a value that was not found is not cached
CacheExtractedIfFound(d, k, v) == IF v # JsonNull THEN DictSet(d, k, v) ELSE d

\* lines 395-404: both branches call self.cache.set(cache_key, .)
CacheExtracted(d, k, v) ==
    IF v # JsonNull THEN DictSet(d, k, v) ELSE DictSet(d, k, JsonNull)

\* the service was constructed (line 66) and holds the instance, which is
\* initialised and empty
ExtractInit ==
    /\ instance = 1
    /\ lock = None
    /\ initialized = TRUE
    /\ objects = <<[has_attrs |-> TRUE, data |-> EmptyDict, data_lock |-> None]>>
    /\ pc = [c \in Procs |-> "idle"]
    /\ cache = [c \in Procs |-> IF c = 1 THEN 1 ELSE Unbound]
    /\ op = [c \in Procs |-> NoOp]
    /\ ret = [c \in Procs |-> RetNone]
    /\ resets = 0
    /\ wi = [c \in Procs |-> 0]
    /\ wphase = [c \in Procs |-> "none"]
    /\ wok = [c \in Procs |-> TRUE]
    /\ prevRet = 1
    /\ resetSince = FALSE
    /\ everReturned = {1}
    /\ shadow = <<EmptyShadow>>
    /\ written = [k \in Keys \cup WorkerKeys |-> NotWritten]
    /\ created = 1
    /\ RetryOff
    /\ RestIdle

\* extract_and_cache(r, k, p), lines 380-406
ExtractAndCache(r, k, p) ==
    /\ response' = r
    /\ cache_key' = k
    /\ json_path' = p
    /\ IF ~r.valid
         THEN \* lines 382-384
              /\ extracted' = RaisedValueError
              /\ UNCHANGED objects
         ELSE IF p = NoPath
         THEN \* lines 387-390
              /\ objects' = SetObj(cache[1], "data",
                                   DictSet(objects[cache[1]].data, k, r.body))
              /\ extracted' = Returned(r.body)
         ELSE \* lines 393-406
              LET extracted_value == ExtractByPath(r.body, p) IN
              /\ objects' = SetObj(cache[1], "data",
                                   CacheExtracted(objects[cache[1]].data, k,
                                                  extracted_value))
              /\ extracted' = Returned(extracted_value)
    /\ UNCHANGED <<instance, lock, initialized, pc, cache, op, ret, resets>>
    /\ UNCHANGED <<workerVars, ghostVars, retryVars, notExtract>>

ExtractNext ==
    \E r \in Responses, k \in Keys, p \in JsonPaths : ExtractAndCache(r, k, p)

SpecExtract == ExtractInit /\ [][ExtractNext]_vars

(***************************************************************************)
(* PanJiPortalService.get_first_field_info and the operations written     *)
(* like it  (portal_service.py:117-631)                                    *)
(***************************************************************************)
\* the cache key "token"
TokenKey == 1
\* the tokens get_token answers with
Tokens == 1..NumTokens

\* api_cache.set("token", response_json["data"]), test_portal_service.py:40
TokenCalls == {Call("set", TokenKey, t, None) : t \in Tokens}

\* faulty variant: the header of the previous request is used again
BuildHeadersMemo(token, previous) == IF previous # Unbound THEN previous ELSE token

\* lines 127-129: headers = {"Authorization": cache.get("token")}
BuildHeaders(token, previous) == token

\* lines 124-125: the operation starts; its local `cache` is not bound yet
PS_Call(c) ==
    /\ pc[c] = "idle"
    /\ pphase[c] = "none"
    /\ pphase' = [pphase EXCEPT ![c] = "get_instance"]
    /\ cache' = [cache EXCEPT ![c] = Unbound]
    /\ UNCHANGED <<instance, lock, initialized, objects, pc, op, ret, resets>>
    /\ UNCHANGED <<workerVars, ghostVars, retryVars, authorization, sentBefore, notPortal>>

\* line 128: cache.get("token") on the instance line 126 returned
PS_Get(c) ==
    /\ pphase[c] = "get_instance"
    /\ StartOp(c, Call("get", TokenKey, 0, None))
    /\ pphase' = [pphase EXCEPT ![c] = "get"]
    /\ UNCHANGED <<workerVars, ghostVars, retryVars, authorization, sentBefore, notPortal>>

\* lines 127-131: the headers are built and the request goes out with them
PS_Send(c) ==
    /\ pphase[c] = "get"
    /\ pc[c] = "idle"
    /\ authorization' = BuildHeaders(ret[c].v, authorization)
    /\ sentBefore' = authorization
    /\ pphase' = [pphase EXCEPT ![c] = "none"]
    /\ ret' = [ret EXCEPT ![c] = RetNone]
    /\ UNCHANGED <<instance, lock, initialized, objects, pc, cache, op, resets>>
    /\ UNCHANGED <<workerVars, ghostVars, retryVars, notPortal>>

\* a client is a test with its portal service: it fetches the cache, stores
\* a token, resets the singleton, or runs a portal operation
PortalStep(c) ==
    \/ PS_Call(c)
    \/ (pphase[c] = "none" \/ cache[c] = Unbound) /\ AccessorStep(c, {"get_instance"})
    \/ pphase[c] = "none" /\ ResetStep(c)
    \/ pphase[c] = "none" /\ \E o \in TokenCalls : CallOp(c, o)
    \/ PS_Get(c)
    \/ OP_Lock(c)
    \/ OP_Do(c)
    \/ OP_Unlock(c)
    \/ PS_Send(c)

\* one thread: an operation runs to its end before the next one starts
PortalNext ==
    \E c \in Clients :
        /\ \A o \in Procs \ {c} : pc[o] = "idle" /\ pphase[o] = "none"
        /\ PortalStep(c)

SpecPortal == Init /\ [][PortalNext]_vars

(***************************************************************************)
(* BasePage: wait_for_element and the primitives built on it               *)
(* (base_page.py:195-460, 518-620, 763-783)                                *)
(***************************************************************************)
\* the primitives that act on the page
Primitives ==
    {"click", "fill", "get_text", "get_attribute", "select_option", "check",
     "uncheck", "scroll_to_element", "wait_for_url"}

\* how a Playwright call ends: it returns, raises PlaywrightTimeoutError, or
\* raises another exception
CallOutcomes == {"ok", "TimeoutError", "Error"}

\* how take_screenshot ends: the file is written, page.screenshot raises,
\* or creating the directory or the file raises (lines 491-504)
ScreenshotOutcomes == {"saved", "screenshot_raises", "open_raises"}

\* faulty variant: no method captures anything
HandlerLogOnly(prim) == "log"

\* the except clauses of each method
\*   both:    except PlaywrightTimeoutError ... except Exception, each with a
\*            screenshot
\*   error:   except Exception with a screenshot
\*   timeout: except PlaywrightTimeoutError with a screenshot, nothing else
\*   log:     except Exception that logs and re-raises
Handler(prim) ==
    CASE prim \in {"wait_for_element", "click", "fill", "get_text"} -> "both"
      [] prim \in {"get_attribute", "select_option", "check", "uncheck"} -> "error"
      [] prim = "wait_for_url" -> "timeout"
      [] prim = "scroll_to_element" -> "log"

\* the word after the tag in the screenshot name, "none" when the clause
\* that catches the exception takes no screenshot
CaptureKind(handler, exc) ==
    CASE handler = "both" -> IF exc = "TimeoutError" THEN "timeout" ELSE "error"
      [] handler = "error" -> "error"
      [] handler = "timeout" -> IF exc = "TimeoutError" THEN "timeout" ELSE "none"
      [] handler = "log" -> "none"

\* the first part of the screenshot name
Tag(prim) ==
    CASE prim = "wait_for_element" -> "element"
      [] prim = "select_option" -> "select"
      [] prim = "wait_for_url" -> "url"
      [] OTHER -> prim

\* the methods that call self.wait_for_element first (click unless
\* wait_before_click is false; wait_for_url never)
WaitsFirst(prim, wait_before) ==
    CASE prim = "wait_for_url" -> FALSE
      [] prim = "click" -> wait_before
      [] OTHER -> TRUE

\* _capture_failure_screenshot(f"{tag}_{kind}_{timestamp}") whose
\* take_screenshot ends with s; an exception of take_screenshot is logged
\* and dropped (lines 770-773)
Capture(prim, handler, exc, s) ==
    IF exc = "ok" \/ CaptureKind(handler, exc) = "none" THEN <<>>
    ELSE <<[tag |-> Tag(prim), kind |-> CaptureKind(handler, exc), saved |-> s = "saved"]>>

\* one call of wait_for_element or of a primitive: w is how locator.wait_for
\* ends, a how the action on the page ends, s1 and s2 how the screenshots of
\* wait_for_element and of the primitive end. The calls of one test are at
\* least a millisecond apart.
PageCall(prim, wait_before, w, a, s1, s2) ==
    /\ clock < MaxPageCalls
    /\ clock' = clock + 1
    /\ LET waits == prim = "wait_for_element" \/ WaitsFirst(prim, wait_before)
           inner == IF waits THEN w ELSE "ok"
           exc == IF prim = "wait_for_element" \/ inner # "ok" THEN inner ELSE a
           caps == (IF waits
                      THEN Capture("wait_for_element", Handler("wait_for_element"), inner, s1)
                      ELSE <<>>)
                   \o (IF prim = "wait_for_element"
                         THEN <<>>
                         ELSE Capture(prim, Handler(prim), exc, s2))
           written_now == {[tag |-> caps[i].tag, kind |-> caps[i].kind, ts |-> clock']
                              : i \in {j \in 1..Len(caps) : caps[j].saved}}
       IN  /\ presult' = [op |-> prim, wait |-> inner, exc |-> exc]
           /\ captures' = caps
           /\ newFiles' = written_now
           /\ files' = files \cup written_now
    /\ UNCHANGED <<cacheVars, workerVars, ghostVars, retryVars, notPage>>

\* the inputs a call reads; one it does not read is kept at its first value,
\* so that every run of the code is tried once
ReadsInputs(prim, wait_before, w, a, s1, s2) ==
    LET waits == prim = "wait_for_element" \/ WaitsFirst(prim, wait_before)
        inner == IF waits THEN w ELSE "ok"
        exc == IF prim = "wait_for_element" \/ inner # "ok" THEN inner ELSE a
    IN  /\ prim # "click" => wait_before
        /\ ~waits => w = "ok"
        /\ (prim = "wait_for_element" \/ inner # "ok") => a = "ok"
        /\ (~waits \/ inner = "ok") => s1 = "saved"
        /\ (prim = "wait_for_element" \/ exc = "ok") => s2 = "saved"

PageInputs ==
    {in \in (Primitives \cup {"wait_for_element"}) \X BOOLEAN \X CallOutcomes
             \X CallOutcomes \X ScreenshotOutcomes \X ScreenshotOutcomes :
        ReadsInputs(in[1], in[2], in[3], in[4], in[5], in[6])}

PageNext ==
    \E in \in PageInputs : PageCall(in[1], in[2], in[3], in[4], in[5], in[6])

SpecPage == Init /\ [][PageNext]_vars

(***************************************************************************)
(* A pytest session: the result hook, the fixtures' teardowns and the      *)
(* summary  (conftest.py:11-42, 146-178, 273-307; base/ui/fixtures.py:     *)
(* 115-218; base/api/fixtures.py:56-85)                                    *)
(***************************************************************************)
\* the tests of the session: UI tests use the page fixture, API tests the
\* service fixture; all of them the autouse test_logger
TestKinds == {"ui", "api"}

\* the steps of the teardowns, in the order pytest runs them, each with the
\* fixture it belongs to and whether a try/except encloses it
TeardownOrder ==
    << [fixture |-> "auto_screenshot_on_failure", step |-> "capture_screenshot", guarded |-> TRUE],
       [fixture |-> "page", step |-> "capture_screenshot", guarded |-> TRUE],
       [fixture |-> "page", step |-> "page.close", guarded |-> FALSE],
       [fixture |-> "context", step |-> "context.close", guarded |-> FALSE],
       [fixture |-> "api_service", step |-> "service.close", guarded |-> FALSE],
       [fixture |-> "test_logger", step |-> "attach_log", guarded |-> TRUE] >>

TeardownSteps == {TeardownOrder[i] : i \in DOMAIN TeardownOrder}

\* the fixtures a test of a kind uses
FixturesOf(kind) ==
    IF kind = "ui"
      THEN {"auto_screenshot_on_failure", "page", "context", "test_logger"}
      ELSE {"api_service", "test_logger"}

\* the steps that run in the teardown of a test: those of fixtures that were
\* set up; the screenshots only after a failed call, and the one of
\* auto_screenshot_on_failure only when the setting enabled is on
\* (base/ui/fixtures.py:207-208)
RunsIn(s, it, enabled) ==
    /\ s.fixture \in FixturesOf(it.kind)
    /\ it.rep_setup = "passed"
    /\ s.step = "capture_screenshot" => it.rep_call = "failed"
    /\ s.fixture = "auto_screenshot_on_failure" => enabled

\* _capture_failure_screenshot (base/ui/fixtures.py:243-279) for the
\* capture steps among the steps ran, in their order: whether the screenshot
\* was attached (page.screenshot and the attachment did not raise) and whether
\* the page was still open
Screenshots(ran, failing) ==
    LET closed(i) == \E j \in 1..(i - 1) :
                        TeardownOrder[j].step = "page.close" /\ TeardownOrder[j] \in ran
        shot(i) == [fixture |-> TeardownOrder[i].fixture,
                    attached |-> TeardownOrder[i] \notin failing,
                    open |-> ~closed(i)]
        RECURSIVE From(_)
        From(i) == IF i > Len(TeardownOrder) THEN <<>>
                   ELSE IF TeardownOrder[i] \in ran
                           /\ TeardownOrder[i].step = "capture_screenshot"
                          THEN <<shot(i)>> \o From(i + 1)
                          ELSE From(i + 1)
    IN  From(1)

\* pytest_runtest_makereport, conftest.py:31-41
MakeReport(results, when, outcome) ==
    IF when = "call"
      THEN IF outcome \in {"passed", "failed", "skipped"}
             THEN [results EXCEPT ![outcome] = @ + 1]
             ELSE results
    ELSE IF when = "setup" /\ outcome = "failed"
      THEN [results EXCEPT !["error"] = @ + 1]
    ELSE results

\* what happened to a test, as pytest reports it: an error when its setup
\* or teardown failed, skipped when its setup or call was skipped, passed or
\* failed as its call was
Happened(it) ==
    (IF it.rep_setup = "failed" \/ it.rep_teardown = "failed" THEN {"error"} ELSE {})
    \cup (IF it.rep_setup = "skipped" \/ it.rep_call = "skipped" THEN {"skipped"} ELSE {})
    \cup (IF it.rep_call \in {"passed", "failed"} THEN {it.rep_call} ELSE {})

\* the runner takes the next test and runs its setup phase; the hook sees
\* the setup report (a skip mark or a skip raised in a fixture gives the
\* outcome skipped)
RunSetup(kind, outcome) ==
    /\ sphase = "idle"
    /\ tests < MaxTests
    /\ tests' = tests + 1
    /\ item' = [NoItem EXCEPT !.kind = kind, !.rep_setup = outcome]
    /\ TEST_RESULTS' = MakeReport(TEST_RESULTS, "setup", outcome)
    /\ sphase' = IF outcome = "passed" THEN "call" ELSE "teardown"
    /\ td_logged' = {}
    /\ td_raised' = {}
    /\ screenshots' = <<>>
    /\ UNCHANGED <<counted, total, SCREENSHOT_ON_FAILURE>>
    /\ UNCHANGED <<cacheVars, workerVars, ghostVars, retryVars, notSession>>

\* the call phase and its report
RunCall(outcome) ==
    /\ sphase = "call"
    /\ item' = [item EXCEPT !.rep_call = outcome]
    /\ TEST_RESULTS' = MakeReport(TEST_RESULTS, "call", outcome)
    /\ sphase' = "teardown"
    /\ UNCHANGED <<tests, counted, td_logged, td_raised, total, SCREENSHOT_ON_FAILURE,
                   screenshots>>
    /\ UNCHANGED <<cacheVars, workerVars, ghostVars, retryVars, notSession>>

\* the teardown phase, in which the steps in failing raise, and its report:
\* an exception inside a try/except is logged, any other leaves the fixture
\* and makes the teardown report failed
RunTeardown(failing) ==
    /\ sphase = "teardown"
    /\ LET ran == {s \in TeardownSteps : RunsIn(s, item, SCREENSHOT_ON_FAILURE)}
           raised == {s \in ran \cap failing : ~s.guarded}
           outcome == IF raised = {} THEN "passed" ELSE "failed"
       IN  /\ td_logged' = {s \in ran \cap failing : s.guarded}
           /\ screenshots' = Screenshots(ran, failing)
           /\ td_raised' = raised
           /\ item' = [item EXCEPT !.rep_teardown = outcome]
           /\ TEST_RESULTS' = MakeReport(TEST_RESULTS, "teardown", outcome)
           /\ counted' = [k \in DOMAIN counted |->
                            IF k \in Happened(item') THEN counted[k] + 1 ELSE counted[k]]
    /\ sphase' = "idle"
    /\ UNCHANGED <<tests, total, SCREENSHOT_ON_FAILURE>>
    /\ UNCHANGED <<cacheVars, workerVars, ghostVars, retryVars, notSession>>

\* pytest_sessionfinish, conftest.py:146-178
SessionFinish ==
    /\ sphase = "idle"
    /\ tests > 0
    /\ total' = TEST_RESULTS.passed + TEST_RESULTS.failed
                  + TEST_RESULTS.skipped + TEST_RESULTS.error
    /\ sphase' = "finished"
    /\ UNCHANGED <<TEST_RESULTS, item, tests, counted, td_logged, td_raised,
                   SCREENSHOT_ON_FAILURE, screenshots>>
    /\ UNCHANGED <<cacheVars, workerVars, ghostVars, retryVars, notSession>>

SessionNext ==
    \/ \E kind \in TestKinds, outcome \in {"passed", "failed", "skipped"} :
          RunSetup(kind, outcome)
    \/ \E outcome \in {"passed", "failed", "skipped"} : RunCall(outcome)
    \/ \E failing \in SUBSET TeardownSteps : RunTeardown(failing)
    \/ SessionFinish

SpecSession == Init /\ [][SessionNext]_vars

\* a session under either value of Settings.SCREENSHOT_ON_FAILURE
SessionInit ==
    /\ CacheInit
    /\ RetryOff
    /\ ExtractIdle
    /\ PortalIdle
    /\ PageIdle
    /\ LoggerIdle
    /\ EnvIdle
    /\ ReportIdle
    /\ ServiceIdle
    /\ SessionStart
    /\ SCREENSHOT_ON_FAILURE \in BOOLEAN

SpecTeardown == SessionInit /\ [][SessionNext]_vars

(***************************************************************************)
(* TestLogger.setup_logger and get_logger  (logger.py:37-114)              *)
(***************************************************************************)
\* faulty variant: the timestamp is computed by every call
NeedsTimestampAlways(start) == TRUE

\* line 55: if cls._session_start_time is None
NeedsTimestamp(start) == start = None

\* lines 58-59: log_dir / LOG_FILE_FORMAT.replace("{timestamp}", start)
LogPath(start) == <<"logs", start>>

\* logging.getLogger(name): the logger of that name, created on first use
ManagerGet(mgr, name) ==
    IF name \in DOMAIN mgr THEN mgr[name] ELSE Cardinality(DOMAIN mgr) + 1

\* faulty variant: some entry of the registry is returned
LookupAny(registry, name) == registry[CHOOSE n \in DOMAIN registry : TRUE]

\* line 114: return cls._loggers[name]
Lookup(registry, name) == registry[name]

HandlerCount(kind) == Cardinality({i \in 1..Len(handlers) : handlers[i] = kind})

\* the calls the threads have made so far
CallsMade == Cardinality({<<t, i>> \in Clients \X (1..MaxLoggerCalls) : i <= lcalls[t]})

\* a thread calls TestLogger.setup_logger()
CallSetupLogger(t) ==
    /\ lpc[t] = "idle"
    /\ CallsMade < MaxLoggerCalls
    /\ lcalls' = [lcalls EXCEPT ![t] = @ + 1]
    /\ lcall' = [lcall EXCEPT ![t] = [fn |-> "setup_logger", name |-> ""]]
    /\ lpc' = [lpc EXCEPT ![t] = "sl_lock"]
    /\ UNCHANGED <<session_start_time, log_file_path, setup_lock, loggers, handlers,
                   manager, now, LOG_TO_CONSOLE, LOG_TO_FILE, firstSetup, returned>>
    /\ UNCHANGED <<cacheVars, workerVars, ghostVars, retryVars, notLogger>>

\* a thread calls TestLogger.get_logger(name)
CallGetLogger(t, name) ==
    /\ lpc[t] = "idle"
    /\ CallsMade < MaxLoggerCalls
    /\ lcalls' = [lcalls EXCEPT ![t] = @ + 1]
    /\ lcall' = [lcall EXCEPT ![t] = [fn |-> "get_logger", name |-> name]]
    /\ lpc' = [lpc EXCEPT ![t] = "gl_check"]
    /\ UNCHANGED <<session_start_time, log_file_path, setup_lock, loggers, handlers,
                   manager, now, LOG_TO_CONSOLE, LOG_TO_FILE, firstSetup, returned>>
    /\ UNCHANGED <<cacheVars, workerVars, ghostVars, retryVars, notLogger>>

\* lines 105-106: if cls._log_file_path is None: cls.setup_logger(); the
\* test is made without the lock
GL_Check(t) ==
    /\ lpc[t] = "gl_check"
    /\ lpc' = [lpc EXCEPT ![t] = IF log_file_path = NoLogPath THEN "sl_lock" ELSE "gl_lock"]
    /\ UNCHANGED <<session_start_time, log_file_path, setup_lock, loggers, handlers,
                   manager, now, LOG_TO_CONSOLE, LOG_TO_FILE, lcall, lcalls,
                   firstSetup, returned>>
    /\ UNCHANGED <<cacheVars, workerVars, ghostVars, retryVars, notLogger>>

\* line 46: with cls._setup_lock
SL_Lock(t) ==
    /\ lpc[t] = "sl_lock"
    /\ setup_lock = None
    /\ setup_lock' = t
    /\ lpc' = [lpc EXCEPT ![t] = "sl_time"]
    /\ UNCHANGED <<session_start_time, log_file_path, loggers, handlers, manager, now,
                   LOG_TO_CONSOLE, LOG_TO_FILE, lcall, lcalls, firstSetup, returned>>
    /\ UNCHANGED <<cacheVars, workerVars, ghostVars, retryVars, notLogger>>

\* lines 55-56: the session timestamp; the thread gets here at a time that
\* is not before the time the last one did
SL_Time(t) ==
    /\ lpc[t] = "sl_time"
    /\ \E time \in now..MaxNow :
          /\ now' = time
          /\ session_start_time' = IF NeedsTimestamp(session_start_time)
                                     THEN time ELSE session_start_time
    /\ lpc' = [lpc EXCEPT ![t] = "sl_path"]
    /\ UNCHANGED <<log_file_path, setup_lock, loggers, handlers, manager,
                   LOG_TO_CONSOLE, LOG_TO_FILE, lcall, lcalls, firstSetup, returned>>
    /\ UNCHANGED <<cacheVars, workerVars, ghostVars, retryVars, notLogger>>

\* lines 58-59: the log file path
SL_Path(t) ==
    /\ lpc[t] = "sl_path"
    /\ log_file_path' = LogPath(session_start_time)
    /\ firstSetup' = IF firstSetup = NoSetup
                       THEN [ts |-> session_start_time, path |-> log_file_path',
                             runs |-> 1, last |-> now]
                       ELSE [firstSetup EXCEPT !.runs = 2, !.last = now]
    /\ lpc' = [lpc EXCEPT ![t] = "sl_clear"]
    /\ UNCHANGED <<session_start_time, setup_lock, loggers, handlers, manager, now,
                   LOG_TO_CONSOLE, LOG_TO_FILE, lcall, lcalls, returned>>
    /\ UNCHANGED <<cacheVars, workerVars, ghostVars, retryVars, notLogger>>

\* lines 62-66: root_logger.handlers.clear()
SL_Clear(t) ==
    /\ lpc[t] = "sl_clear"
    /\ handlers' = <<>>
    /\ lpc' = [lpc EXCEPT ![t] = "sl_console"]
    /\ UNCHANGED <<session_start_time, log_file_path, setup_lock, loggers, manager, now,
                   LOG_TO_CONSOLE, LOG_TO_FILE, lcall, lcalls, firstSetup, returned>>
    /\ UNCHANGED <<cacheVars, workerVars, ghostVars, retryVars, notLogger>>

\* lines 75-79: the console handler
SL_Console(t) ==
    /\ lpc[t] = "sl_console"
    /\ handlers' = IF LOG_TO_CONSOLE THEN Append(handlers, "console") ELSE handlers
    /\ lpc' = [lpc EXCEPT ![t] = "sl_file"]
    /\ UNCHANGED <<session_start_time, log_file_path, setup_lock, loggers, manager, now,
                   LOG_TO_CONSOLE, LOG_TO_FILE, lcall, lcalls, firstSetup, returned>>
    /\ UNCHANGED <<cacheVars, workerVars, ghostVars, retryVars, notLogger>>

\* lines 82-91: the file handler; then the lock is released and the call
\* returns, into get_logger when it came from there
SL_File(t) ==
    /\ lpc[t] = "sl_file"
    /\ handlers' = IF LOG_TO_FILE THEN Append(handlers, "file") ELSE handlers
    /\ setup_lock' = None
    /\ lpc' = [lpc EXCEPT ![t] = IF lcall[t].fn = "get_logger" THEN "gl_lock" ELSE "idle"]
    /\ lcall' = [lcall EXCEPT ![t] = IF lcall[t].fn = "get_logger" THEN @ ELSE NoLoggerCall]
    /\ UNCHANGED <<session_start_time, log_file_path, loggers, manager, now,
                   LOG_TO_CONSOLE, LOG_TO_FILE, lcalls, firstSetup, returned>>
    /\ UNCHANGED <<cacheVars, workerVars, ghostVars, retryVars, notLogger>>

\* line 109: with cls._setup_lock
GL_Lock(t) ==
    /\ lpc[t] = "gl_lock"
    /\ setup_lock = None
    /\ setup_lock' = t
    /\ lpc' = [lpc EXCEPT ![t] = "gl_insert"]
    /\ UNCHANGED <<session_start_time, log_file_path, loggers, handlers, manager, now,
                   LOG_TO_CONSOLE, LOG_TO_FILE, lcall, lcalls, firstSetup, returned>>
    /\ UNCHANGED <<cacheVars, workerVars, ghostVars, retryVars, notLogger>>

\* lines 110-112: if name not in cls._loggers: cls._loggers[name] =
\* logging.getLogger(name)
GL_Insert(t) ==
    /\ lpc[t] = "gl_insert"
    /\ LET name == lcall[t].name IN
       IF name \notin DOMAIN loggers
         THEN LET logger == ManagerGet(manager, name) IN
              /\ manager' = [n \in DOMAIN manager \cup {name} |->
                               IF n = name THEN logger ELSE manager[n]]
              /\ loggers' = [n \in DOMAIN loggers \cup {name} |->
                               IF n = name THEN logger ELSE loggers[n]]
         ELSE UNCHANGED <<manager, loggers>>
    /\ lpc' = [lpc EXCEPT ![t] = "gl_return"]
    /\ UNCHANGED <<session_start_time, log_file_path, setup_lock, handlers, now,
                   LOG_TO_CONSOLE, LOG_TO_FILE, lcall, lcalls, firstSetup, returned>>
    /\ UNCHANGED <<cacheVars, workerVars, ghostVars, retryVars, notLogger>>

\* line 114: return cls._loggers[name], leaving the with block
GL_Return(t) ==
    /\ lpc[t] = "gl_return"
    /\ returned' = [returned EXCEPT ![lcall[t].name] =
                       @ \cup {[by |-> t, logger |-> Lookup(loggers, lcall[t].name)]}]
    /\ setup_lock' = None
    /\ lcall' = [lcall EXCEPT ![t] = NoLoggerCall]
    /\ lpc' = [lpc EXCEPT ![t] = "idle"]
    /\ UNCHANGED <<session_start_time, log_file_path, loggers, handlers, manager, now,
                   LOG_TO_CONSOLE, LOG_TO_FILE, lcalls, firstSetup>>
    /\ UNCHANGED <<cacheVars, workerVars, ghostVars, retryVars, notLogger>>

LoggerInit ==
    /\ CacheInit
    /\ RetryOff
    /\ ExtractIdle
    /\ PortalIdle
    /\ PageIdle
    /\ SessionIdle
    /\ ServiceIdle
    /\ ReportIdle
    /\ EnvIdle
    /\ LoggerStart
    /\ LOG_TO_CONSOLE \in BOOLEAN
    /\ LOG_TO_FILE \in BOOLEAN

\* threads calling setup_logger and get_logger; no reset()
LoggerNext ==
    \/ \E t \in Clients :
          \/ CallSetupLogger(t)
          \/ \E name \in LoggerNames : CallGetLogger(t, name)
          \/ GL_Check(t)
          \/ SL_Lock(t)
          \/ SL_Time(t)
          \/ SL_Path(t)
          \/ SL_Clear(t)
          \/ SL_Console(t)
          \/ SL_File(t)
          \/ GL_Lock(t)
          \/ GL_Insert(t)
          \/ GL_Return(t)

SpecLogger == LoggerInit /\ [][LoggerNext]_vars

(***************************************************************************)
(* EnvironmentManager  (env_config.py:73-282)                              *)
(***************************************************************************)
\* the process environments tried: each variable unset, empty, set to a
\* value the code accepts, or set to one it does not
Environs ==
    [TEST_ENV : {Unset, "prod", "production"},
     API_BASE_URL : {Unset, "", "http://env.example.com"},
     BROWSER_TYPE : {Unset, "firefox", "opera"}]

\* the config files tried: each gives one field of one environment
ConfigFiles ==
    {NoFile,
     [env |-> "prod", api_base_url |-> "https://file.example.com", browser_type |-> Unset],
     [env |-> "test", api_base_url |-> Unset, browser_type |-> "webkit"]}

\* lines 141-143: self._configs = self.DEFAULT_CONFIGS.copy(); the copy is
\* a new dict holding the same objects
LoadDefaultConfigs(defaults) == defaults

\* lines 145-169 for a file with one environment: to_dict, update,
\* from_dict make a new object
MergeFile(config, file) ==
    [name |-> config.name,
     api_base_url |-> IF file.api_base_url = Unset THEN config.api_base_url
                      ELSE file.api_base_url,
     browser_type |-> IF file.browser_type = Unset THEN config.browser_type
                      ELSE file.browser_type]

\* lines 178-185: TEST_ENV, "test" when unset or not a known name
EnvFromEnviron(env) ==
    LET env_name == IF env.TEST_ENV = Unset THEN "test" ELSE env.TEST_ENV
    IN  IF env_name \in EnvNames THEN env_name ELSE "test"

\* if os.getenv(X): set and not empty
Truthy(value) == value # Unset /\ value # ""

\* lines 194-206: the overrides written into the current config object
ApplyEnviron(config, env) ==
    [name |-> config.name,
     api_base_url |-> IF Truthy(env.API_BASE_URL) THEN env.API_BASE_URL
                      ELSE config.api_base_url,
     browser_type |-> IF Truthy(env.BROWSER_TYPE) /\ env.BROWSER_TYPE \in BrowserTypes
                        THEN env.BROWSER_TYPE
                        ELSE config.browser_type]

\* EnvironmentManager(config_file): lines 120-139, with _load_default_configs,
\* _load_from_file and _load_from_env
Construct(file) ==
    /\ managers < MaxManagers
    /\ LET defaults == LoadDefaultConfigs(DEFAULT_CONFIGS)
           loaded == file # NoFile
           heap1 == IF loaded
                      THEN Append(cfgheap, MergeFile(cfgheap[defaults[file.env]], file))
                      ELSE cfgheap
           configs1 == IF loaded
                         THEN [defaults EXCEPT ![file.env] = Len(heap1)]
                         ELSE defaults
           env == EnvFromEnviron(environ)
       IN  /\ current_env' = env
           /\ configs' = configs1
           /\ cfgheap' = [heap1 EXCEPT ![configs1[env]] = ApplyEnviron(@, environ)]
    /\ config_files' = Append(config_files, file)
    /\ managers' = managers + 1
    /\ UNCHANGED <<environ, DEFAULT_CONFIGS>>
    /\ UNCHANGED <<cacheVars, workerVars, ghostVars, retryVars, notEnv>>

\* switch_env(env): lines 269-282; ValueError for an unknown name
SwitchEnv(env) ==
    /\ managers > 0
    /\ current_env' = IF env \in EnvNames THEN env ELSE current_env
    /\ UNCHANGED <<environ, config_files, cfgheap, DEFAULT_CONFIGS, configs, managers>>
    /\ UNCHANGED <<cacheVars, workerVars, ghostVars, retryVars, notEnv>>

\* update_config(env, key=value): lines 298-317, for a key that is a field
\* of EnvironmentConfig; env None is the current environment
UpdateConfig(env, key, value) ==
    /\ managers > 0
    /\ LET target_env == IF env = "None" THEN current_env ELSE env IN
       cfgheap' = [cfgheap EXCEPT ![configs[target_env]][key] = value]
    /\ UNCHANGED <<environ, config_files, DEFAULT_CONFIGS, configs, current_env, managers>>
    /\ UNCHANGED <<cacheVars, workerVars, ghostVars, retryVars, notEnv>>

\* get_config(): lines 250-267, for the current environment
GetConfig == cfgheap[configs[current_env]]

EnvInit ==
    /\ CacheInit
    /\ RetryOff
    /\ ExtractIdle
    /\ PortalIdle
    /\ PageIdle
    /\ SessionIdle
    /\ ServiceIdle
    /\ ReportIdle
    /\ LoggerIdle
    /\ EnvStart
    /\ environ \in Environs

EnvNext ==
    \/ \E file \in ConfigFiles : Construct(file)
    \/ \E env \in EnvNames \cup {"production"} : SwitchEnv(env)
    \/ \E env \in {"None", "prod"} :
          UpdateConfig(env, "api_base_url", "http://updated.example.com")

SpecEnv == EnvInit /\ [][EnvNext]_vars

(***************************************************************************)
(* generate_report.py: main and the commands  (lines 22-197)               *)
(***************************************************************************)
\* the command lines tried: no argument, the five commands, one in capitals
\* and one that is no command
CommandLines ==
    {<<>>, <<"serve">>, <<"generate">>, <<"open">>, <<"clean">>, <<"help">>,
     <<"SERVE">>, <<"report">>}

\* line 181: sys.argv[1].lower()
Lower(word) == IF word = "SERVE" THEN "serve" ELSE word

\* lines 183-189
Commands == {"serve", "generate", "open", "clean", "help"}

\* faulty variant: every value counts as success
ExitCodeAlwaysZero(value) == 0

\* line 193: sys.exit(0 if success else 1); None is false
ExitCode(value) == IF value = "True" THEN 0 ELSE 1

\* an exception that leaves main() ends the process with a traceback
UncaughtExit == 1

ReportFrame == UNCHANGED <<cacheVars, workerVars, ghostVars, retryVars, notReport>>

\* lines 171-174: check_allure_installed (lines 29-46)
CheckAllure ==
    /\ gpc = "main"
    /\ IF allure = "installed"
         THEN /\ gpc' = "args"
              /\ UNCHANGED exit_status
         ELSE /\ gpc' = "exited"
              /\ exit_status' = 1
    /\ UNCHANGED <<argv, allure, results_dir, report_dir, run_outcome, rmtree_outcome,
                   success, done>>
    /\ ReportFrame

\* lines 177-197 up to the call of the command
ParseArgs ==
    /\ gpc = "args"
    /\ IF Len(argv) < 1
         THEN \* lines 177-179
              /\ gpc' = "exited"
              /\ exit_status' = 1
         ELSE IF Lower(argv[1]) \in Commands
         THEN /\ gpc' = Lower(argv[1])
              /\ UNCHANGED exit_status
         ELSE \* lines 194-197
              /\ gpc' = "exited"
              /\ exit_status' = 1
    /\ UNCHANGED <<argv, allure, results_dir, report_dir, run_outcome, rmtree_outcome,
                   success, done>>
    /\ ReportFrame

\* serve(), lines 59-80
Serve ==
    /\ gpc = "serve"
    /\ success' = IF results_dir /\ run_outcome \in {"ok", "KeyboardInterrupt"}
                    THEN "True" ELSE "False"
    /\ done' = (results_dir /\ run_outcome \in {"ok", "KeyboardInterrupt"})
    /\ gpc' = "exit"
    /\ UNCHANGED <<argv, allure, results_dir, report_dir, run_outcome, rmtree_outcome,
                   exit_status>>
    /\ ReportFrame

\* generate(), lines 82-106
Generate ==
    /\ gpc = "generate"
    /\ success' = IF results_dir /\ run_outcome = "ok" THEN "True" ELSE "False"
    /\ done' = (results_dir /\ run_outcome = "ok")
    /\ report_dir' = (report_dir \/ (results_dir /\ run_outcome = "ok"))
    /\ gpc' = "exit"
    /\ UNCHANGED <<argv, allure, results_dir, run_outcome, rmtree_outcome, exit_status>>
    /\ ReportFrame

\* open_report(), lines 108-129
OpenReport ==
    /\ gpc = "open"
    /\ success' = IF report_dir /\ run_outcome \in {"ok", "KeyboardInterrupt"}
                    THEN "True" ELSE "False"
    /\ done' = (report_dir /\ run_outcome \in {"ok", "KeyboardInterrupt"})
    /\ gpc' = "exit"
    /\ UNCHANGED <<argv, allure, results_dir, report_dir, run_outcome, rmtree_outcome,
                   exit_status>>
    /\ ReportFrame

\* clean(), lines 131-150; an exception of shutil.rmtree is not caught
Clean ==
    /\ gpc = "clean"
    /\ IF (results_dir \/ report_dir) /\ rmtree_outcome = "raises"
         THEN /\ gpc' = "exited"
              /\ exit_status' = UncaughtExit
              /\ UNCHANGED <<success, done, results_dir, report_dir>>
         ELSE /\ results_dir' = FALSE
              /\ report_dir' = FALSE
              /\ success' = "True"
              /\ done' = TRUE
              /\ gpc' = "exit"
              /\ UNCHANGED exit_status
    /\ UNCHANGED <<argv, allure, run_outcome, rmtree_outcome>>
    /\ ReportFrame

\* print_usage() called as the command help, lines 152-164: it prints the
\* usage and returns nothing
PrintUsage ==
    /\ gpc = "help"
    /\ success' = "None"
    /\ done' = TRUE
    /\ gpc' = "exit"
    /\ UNCHANGED <<argv, allure, results_dir, report_dir, run_outcome, rmtree_outcome,
                   exit_status>>
    /\ ReportFrame

\* line 193
Exit ==
    /\ gpc = "exit"
    /\ exit_status' = ExitCode(success)
    /\ gpc' = "exited"
    /\ UNCHANGED <<argv, allure, results_dir, report_dir, run_outcome, rmtree_outcome,
                   success, done>>
    /\ ReportFrame

ReportInit ==
    /\ CacheInit
    /\ RetryOff
    /\ ExtractIdle
    /\ PortalIdle
    /\ PageIdle
    /\ SessionIdle
    /\ ServiceIdle
    /\ LoggerIdle
    /\ EnvIdle
    /\ ReportStart
    /\ argv \in CommandLines
    /\ allure \in {"installed", "fails", "missing"}
    /\ results_dir \in BOOLEAN
    /\ report_dir \in BOOLEAN
    /\ run_outcome \in {"ok", "CalledProcessError", "KeyboardInterrupt"}
    /\ rmtree_outcome \in {"ok", "raises"}

ReportNext ==
    \/ CheckAllure
    \/ ParseArgs
    \/ Serve
    \/ Generate
    \/ OpenReport
    \/ Clean
    \/ PrintUsage
    \/ Exit

SpecReport == ReportInit /\ [][ReportNext]_vars

(***************************************************************************)
(* BaseService.__init__ and _setup_authentication  (base_service.py:48-125)*)
(***************************************************************************)
\* the Settings tried: each secret unset or set (settings.py:82-99)
SecretSettings ==
    [BEARER_TOKEN : {NoString, Str("settings-token")},
     API_KEY : {NoString, Str("settings-key")},
     API_KEY_HEADER : {Str("X-API-Key")},
     BASIC_AUTH_USERNAME : {NoString, Str("settings-user")},
     BASIC_AUTH_PASSWORD : {NoString, Str("settings-password")}]

\* the auth_type arguments tried
AuthTypes == {"None", "bearer", "basic", "api_key", "digest"}

\* the values a key of auth_credentials has when it is there
CredentialValues ==
    [token |-> {Str(""), Str("token-1")},
     username |-> {Str("user-1")},
     password |-> {Str(""), Str("password-1")},
     api_key |-> {Str(""), Str("key-1")},
     header_name |-> {Str("X-Token"), Str("Authorization")}]

\* the auth_credentials arguments tried: None, or a dict with some of the
\* keys, each with a value of its kind
CredentialDicts ==
    {NoDict} \cup
    {Dict(m) : m \in {f \in UNION {[ks -> UNION {CredentialValues[k] : k \in ks}]
                                      : ks \in SUBSET DOMAIN CredentialValues} :
                         \A k \in DOMAIN f : f[k] \in CredentialValues[k]}}

\* the truth value of a string or None
NonEmpty(s) == s # NoString /\ s # Str("")

\* the truth value of a dict or None: `if auth_credentials`
HasEntries(d) == d.given /\ DOMAIN d.map # {}

\* d.get(key, default)
GetOr(d, key, default) == IF key \in DOMAIN d.map THEN d.map[key] ELSE default

\* f'Bearer {token}'
Bearer(token) == <<"Bearer ">> \o token

\* session.headers.update({name: value})
HeadersUpdate(headers, name, value) ==
    [h \in DOMAIN headers \cup {name} |-> IF h = name THEN value ELSE headers[h]]

\* faulty variant: the Settings secrets are installed first, whatever the type
SettingsHeadersFirst(settings) ==
    IF NonEmpty(settings.API_KEY)
      THEN HeadersUpdate([h \in {} |-> NoString], settings.API_KEY_HEADER[1],
                         settings.API_KEY)
      ELSE [h \in {} |-> NoString]

\* requests.Session(): no credential header
NewSessionHeaders(settings) == [h \in {} |-> NoString]

\* BaseService(auth_type=type, auth_credentials=credentials): lines 64-80
\* with _setup_authentication, lines 82-125
NewService(type, credentials) ==
    /\ ~built
    /\ built' = TRUE
    /\ LET fresh == NewSessionHeaders(SECRETS) IN
       CASE type = "bearer" ->
              LET token == IF HasEntries(credentials)
                             THEN GetOr(credentials, "token", NoString)
                             ELSE SECRETS.BEARER_TOKEN
              IN  /\ session_headers' = IF NonEmpty(token)
                                          THEN HeadersUpdate(fresh, "Authorization",
                                                             Bearer(token))
                                          ELSE fresh
                  /\ session_auth' = NoAuth
         [] type = "basic" ->
              LET username == IF HasEntries(credentials)
                                THEN GetOr(credentials, "username", NoString)
                                ELSE SECRETS.BASIC_AUTH_USERNAME
                  password == IF HasEntries(credentials)
                                THEN GetOr(credentials, "password", NoString)
                                ELSE SECRETS.BASIC_AUTH_PASSWORD
              IN  /\ session_auth' = IF NonEmpty(username) /\ NonEmpty(password)
                                       THEN HTTPBasicAuth(username, password)
                                       ELSE NoAuth
                  /\ session_headers' = fresh
         [] type = "api_key" ->
              LET api_key == IF HasEntries(credentials)
                               THEN GetOr(credentials, "api_key", NoString)
                               ELSE SECRETS.API_KEY
                  header_name == IF HasEntries(credentials)
                                   THEN GetOr(credentials, "header_name",
                                              SECRETS.API_KEY_HEADER)
                                   ELSE SECRETS.API_KEY_HEADER
              IN  /\ session_headers' = IF NonEmpty(api_key)
                                          THEN HeadersUpdate(fresh, header_name[1], api_key)
                                          ELSE fresh
                  /\ session_auth' = NoAuth
         [] OTHER ->
              /\ session_headers' = fresh
              /\ session_auth' = NoAuth
    /\ UNCHANGED <<SECRETS, auth_type, auth_credentials, kwargs, log_data>>
    /\ UNCHANGED <<cacheVars, workerVars, ghostVars, retryVars, notService>>

ServiceInit ==
    /\ CacheInit
    /\ RetryOff
    /\ ExtractIdle
    /\ PortalIdle
    /\ PageIdle
    /\ SessionIdle
    /\ LoggerIdle
    /\ EnvIdle
    /\ ReportIdle
    /\ ServiceStart
    /\ SECRETS \in SecretSettings
    /\ auth_type \in AuthTypes
    /\ auth_credentials \in CredentialDicts

AuthNext == NewService(auth_type, auth_credentials)

SpecAuth == ServiceInit /\ [][AuthNext]_vars

(***************************************************************************)
(* BaseService._make_request_with_retry up to the request log, and         *)
(* _log_request  (base_service.py:141-173, 225-236)                        *)
(***************************************************************************)
\* the keyword arguments with which get/post/put/delete/patch are called
\* (has names the arguments passed): a query, a JSON body, a raw payload
\* (None, empty or with a secret in it), and headers with a credential
RequestCalls ==
    {[has |-> has, params |-> IF "params" \in has THEN Str("page=1") ELSE NoString,
      json |-> IF "json" \in has THEN Str("{name: x}") ELSE NoString,
      data |-> IF "data" \in has THEN data ELSE NoString,
      headers |-> IF "headers" \in has THEN headers ELSE [h \in {} |-> NoString]]
        : has \in SUBSET {"params", "json", "data", "headers"},
          data \in {NoString, Str(""), Str("password=secret")},
          headers \in {[h \in {} |-> NoString],
                       [h \in {"Authorization"} |-> Str("token-1")],
                       [h \in {"X-API-Key"} |-> Str("key-1")]}}

\* lines 225-233: Content-Type and User-Agent are put into the headers passed,
\* or into a new dict when none were passed
WithDefaultHeaders(kw) ==
    LET headers == IF "headers" \in kw.has THEN kw.headers ELSE [h \in {} |-> NoString]
    IN  [kw EXCEPT !.has = @ \cup {"headers"},
                   !.headers = HeadersUpdate(HeadersUpdate(headers, "Content-Type",
                                                           Str("application/json")),
                                             "User-Agent", Str("random-ua"))]

\* lines 155-171: the summary dict that is logged
LogData(method, url, kw) ==
    [has |-> {"method", "url"}
               \cup (IF "params" \in kw.has THEN {"params"} ELSE {})
               \cup (IF "json" \in kw.has THEN {"json_body"} ELSE {})
               \cup (IF "data" \in kw.has THEN {"data"} ELSE {})
               \cup (IF "headers" \in kw.has THEN {"headers"} ELSE {}),
     method |-> method,
     url |-> url,
     params |-> IF "params" \in kw.has THEN kw.params ELSE NoString,
     json_body |-> IF "json" \in kw.has THEN kw.json ELSE NoString,
     data |-> IF "data" \in kw.has /\ NonEmpty(kw.data) THEN Str("***") ELSE NoString,
     headers |-> IF "headers" \in kw.has THEN kw.headers ELSE [h \in {} |-> NoString]]

\* one attempt of a request made with the keyword arguments kw, up to
\* line 236: self._log_request(method, url, **kwargs)
LogRequest(method, kw) ==
    /\ built
    /\ kwargs' = WithDefaultHeaders(kw)
    /\ log_data' = LogData(method, "https://api.example.com/users", kwargs')
    /\ UNCHANGED <<SECRETS, auth_type, auth_credentials, built, session_headers,
                   session_auth>>
    /\ UNCHANGED <<cacheVars, workerVars, ghostVars, retryVars, notService>>

\* services with and without a bearer token of their own
RequestLogInit ==
    /\ CacheInit
    /\ RetryOff
    /\ ExtractIdle
    /\ PortalIdle
    /\ PageIdle
    /\ SessionIdle
    /\ LoggerIdle
    /\ EnvIdle
    /\ ReportIdle
    /\ ServiceStart
    /\ SECRETS \in SecretSettings
    /\ auth_type \in {"None", "bearer"}
    /\ auth_credentials \in {NoDict, Dict([k \in {"token"} |-> Str("token-1")])}

RequestLogNext ==
    \/ NewService(auth_type, auth_credentials)
    \/ \E method \in {"GET", "POST"}, kw \in RequestCalls : LogRequest(method, kw)

SpecRequestLog == RequestLogInit /\ [][RequestLogNext]_vars

(***************************************************************************)
(* Properties of the DataCache.                                            *)
(***************************************************************************)
\* C1: within one thread, an accessor call (get_instance or get_cache) made
\* with no reset_instance() since the previous accessor call returns the same
\* object as that call; the first accessor call after a reset_instance()
\* returns an object no earlier call returned and nobody holds, different
\* from the previous one, initialised and without entries.
C1_SingletonIdentity ==
    [][\A c \in Clients :
          (pc[c] = "gi_ret" /\ pc'[c] = "idle") =>
             LET r == cache'[c] IN
             /\ r \in 1..Len(objects)
             /\ (prevRet # None /\ ~resetSince) => r = prevRet
             /\ resetSince =>
                   /\ r \notin everReturned
                   /\ r # prevRet
                   /\ \A d \in Clients : cache[d] # r
                   /\ objects[r].has_attrs
                   /\ DictLen(objects[r].data) = 0]_vars

\* two clients hold different objects: the one from before the reset, which
\* still has an entry, and the fresh one returned after it
C1_Witness ==
    /\ everReturned = {1, 2}
    /\ prevRet = 2
    /\ ~resetSince
    /\ \E c, d \in Clients : cache[c] = 1 /\ cache[d] = 2
    /\ \A c \in Clients : pc[c] = "idle"
    /\ DictLen(objects[1].data) > 0

\* C2: threads that call get_instance() concurrently while no instance exists
\* create exactly one DataCache object, and each of these calls returns it;
\* over the whole run at most one object is created per reset_instance().
C2_OneInstanceCreated ==
    /\ created <= resets + 1
    /\ resets = 0 =>
          /\ created <= 1
          /\ instance \in {None, 1}
          /\ \A c \in Clients : cache[c] # Unbound => (cache[c] = 1 /\ created = 1)

\* one thread has returned the instance while another, which also saw no
\* instance in its first check, is at the check under the lock
C2_Witness ==
    /\ resets = 0
    /\ created = 1
    /\ \E c, d \in Clients :
          /\ c # d
          /\ pc[c] = "idle"
          /\ cache[c] = 1
          /\ pc[d] = "gi_check2"

\* C3: in test_thread_safety every get(k) of a thread returns the value the
\* thread has just set under k, and the size() read after joining the
\* threads is NumThreads * OpsPerThread, for every interleaving.
C3_ThreadSafety ==
    /\ \A t \in Workers :
          (pc[t] = "idle" /\ wphase[t] = "assert_get") =>
              ret[t] = RetVal(WorkerValue(t, wi[t]))
    /\ \A t \in Workers : wok[t]
    /\ (pc[Main] = "idle" /\ wphase[Main] = "assert_size") =>
          ret[Main] = RetInt(NumThreads * OpsPerThread)

\* the threads are done and the main thread has read the size
C3_Witness ==
    /\ \A t \in Workers : wphase[t] = "done" /\ wi[t] = OpsPerThread
    /\ pc[Main] = "idle"
    /\ wphase[Main] = "assert_size"
    /\ ret[Main].kind = "int"

\* the keys of a plain map that are present
Present(m) == {k \in DOMAIN m : m[k] # Absent}

\* C4: in a sequential run every DataCache object behaves as a plain map:
\* get(k, d) returns the value of the latest set(k, .) since the last clear(),
\* or d if there is none; has(k) tells whether there is one; size() is the
\* number of distinct keys set since the last clear().
C4_PlainMap ==
    [][\A c \in {1} :
          (pc[c] = "op_do" /\ pc'[c] = "op_unlock") =>
             LET m == shadow[cache[c]]
                 o == op[c]
                 r == ret'[c]
             IN  /\ o.name = "get" =>
                       r = RetVal(IF m[o.key] # Absent THEN m[o.key] ELSE o.dflt)
                 /\ o.name = "has" => r = RetBool(m[o.key] # Absent)
                 /\ o.name = "size" => r = RetInt(Cardinality(Present(m)))
                 /\ o.name = "get_all_keys" => r = RetKeys(Present(m))
                 /\ o.name \in {"set", "clear"} => r = RetNone]_vars

\* a get with a default other than None on a key that is not set, in a cache
\* that holds another key, returns the default
C4_Witness ==
    \E c \in Clients :
        /\ pc[c] = "op_unlock"
        /\ op[c].name = "get"
        /\ op[c].dflt # None
        /\ cache[c] \in 1..Len(objects)
        /\ shadow[cache[c]][op[c].key] = Absent
        /\ Present(shadow[cache[c]]) # {}
        /\ ret[c] = RetVal(op[c].dflt)

\* C5 as stated: a value written under a key by any client is what every
\* later read of the key by any other client returns, until the key is
\* written again or a cache is cleared.
C5_WriteVisibleToAll ==
    [][\A c \in Clients :
          (pc[c] = "op_do" /\ pc'[c] = "op_unlock" /\ op[c].name = "get") =>
             ((written[op[c].key].val # Absent /\ written[op[c].key].by # c) =>
                 ret'[c] = RetVal(written[op[c].key].val))]_vars

\* C5, amended: a value written under a key is what every later read of the
\* key returns, until the key is written again or a cache is cleared,
\* whenever the reader holds the DataCache object the writer wrote to.
C5_WriteVisibleSameInstance ==
    [][\A c \in Clients :
          (pc[c] = "op_do" /\ pc'[c] = "op_unlock" /\ op[c].name = "get") =>
             ((written[op[c].key].val # Absent /\ written[op[c].key].obj = cache[c]) =>
                 ret'[c] = RetVal(written[op[c].key].val))]_vars

\* a client reads the value another client wrote, after a reset_instance()
\* and with a default that differs from the value
C5_Witness ==
    \E c \in Clients :
        /\ pc[c] = "op_unlock"
        /\ op[c].name = "get"
        /\ written[op[c].key].val # Absent
        /\ written[op[c].key].by # c
        /\ written[op[c].key].obj = cache[c]
        /\ op[c].dflt # written[op[c].key].val
        /\ ret[c] = RetVal(written[op[c].key].val)
        /\ resets > 0

(***************************************************************************)
(* Properties of the retry engine.                                         *)
(***************************************************************************)
\* the attempt budget as the settings give it
Budget == IF ENABLE_RETRY THEN 1 + MAX_RETRIES ELSE 1

IsNetError(x) == x.kind \in {"ConnectionError", "Timeout"}
Is4xx(x) == x.kind = "Response" /\ x.status >= 400 /\ x.status < 500
Is5xx(x) == x.kind = "Response" /\ x.status >= 500 /\ x.status < 600
IsSuccess(x) == x.kind = "Response" /\ x.status < 400
AllOutcomes(P(_)) == \A i \in 1..Len(outcomes) : P(outcomes[i])

\* the delays RETRY_DELAY, 2 RETRY_DELAY, 4 RETRY_DELAY, ... before n retries
BackoffSequence(n) == [i \in 1..n |-> RETRY_DELAY * 2^(i - 1)]

\* C6: a request issues at most 1 + MAX_RETRIES underlying calls when
\* ENABLE_RETRY is true and exactly 1 when it is false; when every attempt
\* fails with a connection or timeout error it issues exactly that many.
C6_AttemptBudget ==
    /\ Len(outcomes) <= Budget
    /\ (rpc = "done" /\ ~ENABLE_RETRY) => Len(outcomes) = 1
    /\ (rpc = "done" /\ AllOutcomes(IsNetError)) => Len(outcomes) = Budget

\* retry is enabled and a request ended after MAX_RETRIES + 1 >= 2 attempts
\* that all failed with a connection or timeout error
C6_Witness ==
    /\ rpc = "done"
    /\ ENABLE_RETRY
    /\ MAX_RETRIES >= 1
    /\ AllOutcomes(IsNetError)
    /\ Len(outcomes) = 1 + MAX_RETRIES

\* C7: with retry enabled, as long as the first k <= MAX_RETRIES attempts have
\* failed with a connection or timeout error the request goes on to attempt
\* k + 1, and when that attempt succeeds the request ends with exactly k + 1
\* underlying calls and returns the response of attempt k + 1.
C7_RetryThenSuccess ==
    ENABLE_RETRY =>
       /\ (rpc # "idle" /\ AllOutcomes(IsNetError) /\ Len(outcomes) <= MAX_RETRIES) =>
             (rpc = "loop" /\ attempt = Len(outcomes))
       /\ \A k \in 0..MAX_RETRIES :
             ( /\ Len(outcomes) >= k + 1
               /\ \A i \in 1..k : IsNetError(outcomes[i])
               /\ IsSuccess(outcomes[k + 1]) ) =>
             ( /\ Len(outcomes) = k + 1
               /\ rpc = "done"
               /\ result = Return(k + 1, outcomes[k + 1].status) )

\* max_retries = 2, two connection failures, then a success: 3 calls
C7_Witness ==
    /\ ENABLE_RETRY
    /\ MAX_RETRIES = 2
    /\ rpc = "done"
    /\ Len(outcomes) = 3
    /\ outcomes[1].kind = "ConnectionError"
    /\ outcomes[2].kind = "ConnectionError"
    /\ outcomes[3] = [kind |-> "Response", status |-> 200]
    /\ result = Return(3, 200)

\* C8: a request whose attempts all failed with a connection or timeout error
\* ends by raising the error of its last attempt.
C8_RaisesLastError ==
    (rpc = "done" /\ Len(outcomes) >= 1 /\ AllOutcomes(IsNetError)) =>
        result = Raise(Exception(outcomes[Len(outcomes)].kind, Len(outcomes), 0))

\* the budget is used up by errors of different kinds, the last one a timeout
C8_Witness ==
    /\ rpc = "done"
    /\ Len(outcomes) >= 2
    /\ Len(outcomes) = Budget
    /\ AllOutcomes(IsNetError)
    /\ outcomes[1].kind = "ConnectionError"
    /\ outcomes[Len(outcomes)].kind = "Timeout"
    /\ result.how = "raised"

\* C9: an attempt that receives a 4xx status is the last underlying call of
\* its request, whatever the settings and whichever attempt it is, and the
\* request ends by raising the HTTPError of that attempt.
C9_No4xxRetry ==
    \A i \in 1..Len(outcomes) :
        Is4xx(outcomes[i]) =>
            /\ i = Len(outcomes)
            /\ rpc = "done"
            /\ result = Raise(Exception("HTTPError", i, outcomes[i].status))

\* a 404 on the first attempt with retries left: one call, HTTPError raised
C9_Witness ==
    /\ ENABLE_RETRY
    /\ MAX_RETRIES >= 1
    /\ rpc = "done"
    /\ outcomes = <<[kind |-> "Response", status |-> 404]>>
    /\ result = Raise(Exception("HTTPError", 1, 404))

\* C10: 5xx answers are retried like connection and timeout errors: while
\* every attempt so far failed with a 5xx status or such an error and fewer
\* than the budget were made, the request goes on; the waits before the
\* retries are RETRY_DELAY, 2 RETRY_DELAY, ... whichever of the two caused
\* them; a request whose attempts all returned 5xx makes as many attempts as
\* the budget allows and ends by raising the HTTPError of the last one.
C10_Retry5xx ==
    LET retryable(x) == IsNetError(x) \/ Is5xx(x)
        n == Len(outcomes)
    IN  /\ (rpc # "idle" /\ AllOutcomes(retryable) /\ n < Budget) =>
              (rpc = "loop" /\ attempt = n)
        /\ (rpc # "idle" /\ AllOutcomes(retryable)) =>
              sleeps = BackoffSequence(IF n < Budget THEN n ELSE Budget - 1)
        /\ (rpc = "done" /\ n >= 1 /\ AllOutcomes(Is5xx)) =>
              /\ n = Budget
              /\ result = Raise(Exception("HTTPError", n, outcomes[n].status))

\* three 5xx answers with max_retries = 2 and a positive delay d: the waits
\* were d and 2d, and the HTTPError of the third attempt is raised
C10_Witness ==
    /\ ENABLE_RETRY
    /\ MAX_RETRIES = 2
    /\ RETRY_DELAY >= 1
    /\ rpc = "done"
    /\ Len(outcomes) = 3
    /\ AllOutcomes(Is5xx)
    /\ sleeps = <<RETRY_DELAY, 2 * RETRY_DELAY>>
    /\ result = Raise(Exception("HTTPError", 3, outcomes[3].status))

\* C11: within one request the wait before the n-th retry is
\* RETRY_DELAY * 2^(n-1), whether the retry follows a connection/timeout
\* error or a 5xx status; every retry is preceded by one wait; a new request
\* starts with the delay RETRY_DELAY again, whatever the previous one reached.
C11_ExponentialBackoff ==
    /\ [](/\ \A n \in 1..Len(sleeps) : sleeps[n] = RETRY_DELAY * 2^(n - 1)
          /\ rpc = "loop" => Len(sleeps) = Len(outcomes)
          /\ rpc = "loop" => retry_delay = RETRY_DELAY * 2^Len(sleeps))
    /\ [][requests' = requests + 1 =>
             (retry_delay' = RETRY_DELAY /\ sleeps' = <<>>)]_vars

\* the second request waited d and then 2d, d >= 1, the first time after a
\* 5xx status and the second time after a connection error
C11_Witness ==
    /\ requests = 2
    /\ RETRY_DELAY >= 1
    /\ Len(outcomes) >= 2
    /\ Is5xx(outcomes[1])
    /\ outcomes[2].kind = "ConnectionError"
    /\ sleeps = <<RETRY_DELAY, 2 * RETRY_DELAY>>

(***************************************************************************)
(* Properties of extract_and_cache.                                        *)
(***************************************************************************)
\* the values one step of a path leads to from v: the member of a dict under
\* the piece, the element of a list at the position the piece denotes
\* (counted from the end when negative), none otherwise
Child(v, piece) ==
    IF v.t = "dict" THEN {v.m[s] : s \in {piece} \cap DOMAIN v.m}
    ELSE IF v.t = "list" THEN
        {v.l[i] : i \in {j \in 1..Len(v.l) :
            /\ piece \in DOMAIN IntLiterals
            /\ \/ IntLiterals[piece] = j - 1
               \/ IntLiterals[piece] = j - 1 - Len(v.l)}}
    ELSE {}

\* the values the first n pieces lead to from the body: one, or none when a
\* piece is missing or invalid
RECURSIVE ValuesAt(_, _, _)
ValuesAt(body, pieces, n) ==
    IF n = 0 THEN {body}
    ELSE UNION {Child(v, pieces[n]) : v \in ValuesAt(body, pieces, n - 1)}

\* the value of the path in the body, None when it does not resolve; the
\* empty string is the path without pieces
Expected(body, path) ==
    LET pieces == IF path = EmptyString THEN <<>> ELSE path[2]
        found == ValuesAt(body, pieces, Len(pieces))
    IN  IF found = {} THEN JsonNull ELSE CHOOSE v \in found : TRUE

CurrentToken ==
    IF instance = None THEN None
    ELSE DictGet(objects[instance].data, TokenKey, None)

\* C13: the Authorization header a portal operation sends is the value
\* stored under "token" in the Data Cache when the operation runs, whichever
\* client runs it and whatever was sent or read before.
C13_LiveToken ==
    [][\A c \in Clients :
          (pphase[c] = "get" /\ pphase'[c] = "none") =>
              authorization' = CurrentToken]_vars

\* an operation has just sent the token another client stored, after an
\* earlier request had carried a different token
C13_Witness ==
    \E c \in Clients :
        /\ pphase[c] = "none"
        /\ pc[c] = "idle"
        /\ authorization = CurrentToken
        /\ authorization \in Tokens
        /\ written[TokenKey].by # c
        /\ written[TokenKey].val = authorization
        /\ sentBefore \in Tokens \ {authorization}

(***************************************************************************)
(* Properties of the page primitives.                                      *)
(***************************************************************************)
\* C14 as stated: a wait_for_element whose wait times out raises the timeout
\* error and writes exactly one new screenshot file, with timeout or error
\* in its name.
C14_TimeoutOneScreenshot ==
    (presult.op = "wait_for_element" /\ presult.wait = "TimeoutError") =>
        /\ presult.exc = "TimeoutError"
        /\ Cardinality(newFiles) = 1
        /\ newFiles \cap files = newFiles
        /\ \A f \in newFiles : f.kind \in {"timeout", "error"}

\* C14, amended: a wait_for_element whose wait times out raises the timeout
\* error after one attempt to capture a screenshot named element_timeout_*;
\* the attempt writes exactly one new file when take_screenshot succeeds and
\* none when it fails, and the timeout error is raised either way.
C14_TimeoutScreenshotIfCaptured ==
    (presult.op = "wait_for_element" /\ presult.wait = "TimeoutError") =>
        /\ presult.exc = "TimeoutError"
        /\ Len(captures) = 1
        /\ captures[1].tag = "element"
        /\ captures[1].kind = "timeout"
        /\ Cardinality(newFiles) = (IF captures[1].saved THEN 1 ELSE 0)
        /\ \A f \in newFiles : f.kind \in {"timeout", "error"} /\ f.ts = clock
        /\ \A f \in files \ newFiles : f.ts < clock

\* a second timed-out wait_for_element added one file to the one of the
\* first
C14_Witness ==
    /\ presult = [op |-> "wait_for_element", wait |-> "TimeoutError", exc |-> "TimeoutError"]
    /\ clock = 2
    /\ Cardinality(newFiles) = 1
    /\ Cardinality(files) = 2
    /\ \A f \in files : f.tag = "element" /\ f.kind = "timeout"

\* C15 as stated: whenever one of the primitives fails with an exception, in
\* the element wait or in the action, a failure screenshot tagged with that
\* operation is captured before the exception reaches the caller.
C15_EveryFailureCaptured ==
    (presult.op \in Primitives /\ presult.exc # "ok") =>
        \E i \in 1..Len(captures) : captures[i].tag = Tag(presult.op)

\* the primitives of C26
CapturingPrimitives ==
    {"click", "fill", "get_text", "get_attribute", "select_option", "check", "uncheck"}

\* C26: a failing call of click, fill, get_text, get_attribute,
\* select_option, check or uncheck, whose screenshots can all be taken and
\* saved, writes exactly one failure screenshot, whether the element wait
\* failed or the action.
C26_OneScreenshotPerFailure ==
    (/\ presult.op \in CapturingPrimitives
     /\ presult.exc # "ok"
     /\ \A i \in 1..Len(captures) : captures[i].saved) =>
        Cardinality(newFiles) = 1

(***************************************************************************)
(* Properties of the session.                                              *)
(***************************************************************************)
\* C16 as stated: a failure inside a teardown step is caught and logged
\* inside the teardown; it never leaves the fixture, and the teardown report
\* of the test is never a failure because of it.
C16_TeardownFailuresCaught ==
    /\ td_raised = {}
    /\ item.rep_teardown # "failed"

\* C17 as stated: when the session ends each counter equals the number of
\* tests that passed, failed, were skipped and errored, every test is
\* counted exactly once, and the total logged is the sum of the counters.
C17_CountersExact ==
    sphase = "finished" =>
        /\ TEST_RESULTS = counted
        /\ total = TEST_RESULTS.passed + TEST_RESULTS.failed
                     + TEST_RESULTS.skipped + TEST_RESULTS.error
        /\ total = tests

(***************************************************************************)
(* Properties of the TestLogger.                                           *)
(***************************************************************************)
\* C18: with no reset(), once a setup_logger call (made directly or by
\* get_logger) has computed the session timestamp and the log file path,
\* every later call, from any thread, leaves both as they are; and the root
\* logger never carries more than one console handler or more than one file
\* handler.
C18_SetupIdempotent ==
    /\ firstSetup # NoSetup =>
          /\ session_start_time = firstSetup.ts
          /\ log_file_path = firstSetup.path
    /\ HandlerCount("console") <= 1
    /\ HandlerCount("file") <= 1

\* setup_logger has run again a second after the first run and has ended:
\* timestamp and path are those of the first run, and both handlers are
\* attached once
C18_Witness ==
    /\ firstSetup.runs = 2
    /\ firstSetup.last > firstSetup.ts
    /\ session_start_time = firstSetup.ts
    /\ \A t \in Clients : lpc[t] = "idle"
    /\ handlers = <<"console", "file">>

\* C19: with no reset(), all get_logger(name) calls of all threads return
\* the same logger object for the same name, and different names have
\* different entries in the registry.
C19_SameLoggerPerName ==
    /\ \A n \in LoggerNames : \A r1, r2 \in returned[n] : r1.logger = r2.logger
    /\ \A n, m \in LoggerNames :
          n # m => \A r1 \in returned[n], r2 \in returned[m] : r1.logger # r2.logger
    /\ \A n, m \in DOMAIN loggers : n # m => loggers[n] # loggers[m]

\* two threads whose get_logger calls overlapped got the same logger for
\* one name, and a logger of the other name was returned as well
C19_Witness ==
    \E n, m \in LoggerNames :
        /\ n # m
        /\ \E r1, r2 \in returned[n] : r1.by # r2.by
        /\ returned[m] # {}
        /\ firstSetup.runs = 2

(***************************************************************************)
(* Properties of the EnvironmentManager.                                   *)
(***************************************************************************)
\* C20: at every point of a manager's lifetime (after construction, with or
\* without a config file, and after switch_env) each overridable field
\* whose environment variable is set, to a value the code accepts, has that
\* value in the config of the active environment.
C20_EnvironWins ==
    managers > 0 =>
        /\ Truthy(environ.API_BASE_URL) =>
              GetConfig.api_base_url = environ.API_BASE_URL
        /\ environ.BROWSER_TYPE \in BrowserTypes =>
              GetConfig.browser_type = environ.BROWSER_TYPE

(***************************************************************************)
(* Properties of generate_report.py.                                       *)
(***************************************************************************)
\* C21: when the process has exited after running one of the commands
\* serve, generate, open, clean and help, its status is 0 if the command
\* did what it is for and 1 if it did not; with an unknown command or
\* without a command the status is 1.
C21_ExitStatus ==
    (gpc = "exited" /\ allure = "installed") =>
        IF Len(argv) >= 1 /\ Lower(argv[1]) \in Commands
          THEN /\ done => exit_status = 0
               /\ ~done => exit_status = 1
          ELSE exit_status = 1

(***************************************************************************)
(* Properties of the authentication of a BaseService.                      *)
(***************************************************************************)
\* the credentials the constructor was given, or None when it was given
\* none (no dict, or an empty one): then the Settings secrets are used
Explicit(key) ==
    IF auth_credentials.given /\ DOMAIN auth_credentials.map # {}
      THEN [given |-> TRUE,
            value |-> IF key \in DOMAIN auth_credentials.map
                        THEN auth_credentials.map[key] ELSE NoString]
      ELSE [given |-> FALSE, value |-> NoString]

Chosen(key, secret) == IF Explicit(key).given THEN Explicit(key).value ELSE secret

Set(s) == s # NoString /\ s # <<"">>

\* C22: after a BaseService is constructed, its session carries the
\* credential of the selected auth_type and nothing else: bearer with a
\* token t has the one header Authorization: Bearer t and no basic auth;
\* api_key with key k and header name h has the one header h: k and no
\* basic auth; basic with a user and a password has basic auth and no
\* header; any other auth_type, or a selected type without a credential,
\* has neither, whatever secrets the Settings hold for the other types.
C22_OnlySelectedCredential ==
    built =>
        LET token == Chosen("token", SECRETS.BEARER_TOKEN)
            api_key == Chosen("api_key", SECRETS.API_KEY)
            header_name == IF Explicit("header_name").given
                                /\ "header_name" \in DOMAIN auth_credentials.map
                             THEN auth_credentials.map["header_name"]
                             ELSE SECRETS.API_KEY_HEADER
            username == Chosen("username", SECRETS.BASIC_AUTH_USERNAME)
            password == Chosen("password", SECRETS.BASIC_AUTH_PASSWORD)
        IN  /\ (auth_type = "bearer" /\ Set(token)) =>
                  /\ DOMAIN session_headers = {"Authorization"}
                  /\ session_headers["Authorization"] = <<"Bearer ", token[1]>>
                  /\ session_auth = <<>>
            /\ (auth_type = "api_key" /\ Set(api_key)) =>
                  /\ DOMAIN session_headers = {header_name[1]}
                  /\ session_headers[header_name[1]] = api_key
                  /\ session_auth = <<>>
            /\ (auth_type = "basic" /\ Set(username) /\ Set(password)) =>
                  /\ session_auth = <<username, password>>
                  /\ DOMAIN session_headers = {}
            /\ ~ \/ auth_type = "bearer" /\ Set(token)
                 \/ auth_type = "api_key" /\ Set(api_key)
                 \/ auth_type = "basic" /\ Set(username) /\ Set(password)
               => /\ DOMAIN session_headers = {}
                  /\ session_auth = <<>>

\* a service was built with auth_type bearer and an explicit token while
\* the Settings hold an API key and basic credentials: only the bearer
\* header is on the session
C22_Witness ==
    /\ built
    /\ auth_type = "bearer"
    /\ auth_credentials.given
    /\ "token" \in DOMAIN auth_credentials.map
    /\ auth_credentials.map["token"] = <<"token-1">>
    /\ SECRETS.API_KEY # NoString
    /\ SECRETS.BASIC_AUTH_USERNAME # NoString
    /\ SECRETS.BASIC_AUTH_PASSWORD # NoString
    /\ session_headers = [h \in {"Authorization"} |-> <<"Bearer ", "token-1">>]
    /\ session_auth = <<>>

(***************************************************************************)
(* Properties of concurrent get_instance calls.                            *)
(***************************************************************************)
\* C23: every object a get_instance() call has returned to a client is
\* initialised from the moment of the return on: it has its data map and
\* its data lock, so that set/get/has/clear/size on it succeed.
C23_ReturnedInitialized ==
    \A c \in Clients :
        cache[c] \in 1..Len(objects) => objects[cache[c]].has_attrs

\* C24: no get_instance() call returns None, whatever get_instance() and
\* reset_instance() calls of other threads run at the same time.
C24_NeverReturnsNone ==
    \A c \in Clients : cache[c] # None

(***************************************************************************)
(* Properties of a request under any settings.                             *)
(***************************************************************************)
\* C25: for every ENABLE_RETRY and MAX_RETRIES and every sequence of
\* attempt outcomes, a call of get/post/put/delete/patch that has ended
\* has issued at least one HTTP request and has either returned a response
\* or raised an error; it has not returned without a response.
C25_RequestOrError ==
    rpc = "done" =>
        /\ Len(outcomes) >= 1
        /\ result # ReturnNone
        /\ result # Pending

(***************************************************************************)
(* Properties of the failure screenshots of the UI fixtures.               *)
(***************************************************************************)
\* the teardown of a UI test has run
TornDown == sphase = "idle" /\ item.kind = "ui" /\ item.rep_teardown # "none"

\* C27: when the teardown of a UI test has run and no screenshot step
\* failed, exactly one failure screenshot was captured and attached if the
\* call phase of the test failed, and it was captured while the page was
\* still open; none was captured if the call phase did not fail.
C27_OneScreenshotPerFailedTest ==
    (TornDown /\ \A i \in 1..Len(screenshots) : screenshots[i].attached) =>
        IF item.rep_call = "failed"
          THEN /\ Len(screenshots) = 1
               /\ screenshots[1].open
          ELSE screenshots = <<>>

\* C28: when Settings.SCREENSHOT_ON_FAILURE is false, no fixture captures or
\* attaches a failure screenshot in the teardown of a failed UI test.
C28_NoScreenshotWhenDisabled ==
    (TornDown /\ item.rep_call = "failed" /\ ~SCREENSHOT_ON_FAILURE) =>
        screenshots = <<>>

\* C29: whatever update_config calls and environment-variable overrides
\* have changed through a manager, the objects of the class attribute
\* DEFAULT_CONFIGS, which every other manager starts from, are as the class
\* defines them.
C29_DefaultsUntouched ==
    \A e \in EnvNames : cfgheap[DEFAULT_CONFIGS[e]] = DefaultObjects[DefaultRefs[e]]

(***************************************************************************)
(* Properties of the request log.                                          *)
(***************************************************************************)
\* the headers that carry a credential
CredentialHeaders == {"Authorization", "X-API-Key"}

\* C30: the request summary logged for an attempt holds neither the content
\* of the raw data payload of the call nor the value of a credential header
\* passed with the call.
C30_LogRedacted ==
    "method" \in log_data.has =>
        /\ ("data" \in kwargs.has /\ kwargs.data # NoString /\ kwargs.data # <<"">>) =>
              log_data.data # kwargs.data
        /\ \A h \in DOMAIN kwargs.headers \cap CredentialHeaders :
              ~ /\ "headers" \in log_data.has
                /\ h \in DOMAIN log_data.headers
                /\ log_data.headers[h] = kwargs.headers[h]

====
